---- MODULE Spec2Model ----
(***************************************************************************)
(* State-machine model of the WWVB clock firmware (wwvb_clock.ino and its  *)
(* components ES100, TimeManager, ReceptionHistory, NTPServer,             *)
(* CaptivePortal).                                                         *)
(*                                                                         *)
(* Spec      the WWVB sync scheduler and reception handling of loop()      *)
(* WifiSpec  the WiFi connection / access-point state machine              *)
(* NtpSpec   the NTP server's handleClient                                 *)
(***************************************************************************)
EXTENDS Integers, Sequences, FiniteSets, TLC

(***************************************************************************)
(* Program constants                                                       *)
(***************************************************************************)
SYNC_INTERVAL_INITIAL_MS == 300000
SYNC_INTERVAL_NIGHT_MS == 3600000
SYNC_INTERVAL_DAY_MS == 14400000
SYNC_NIGHT_START_HOUR == 22
SYNC_NIGHT_END_HOUR == 6
SYNC_DAY_MAX_FAILURES == 3
SYNC_TIMEOUT_NORMAL_MS == 180000
SYNC_TIMEOUT_TRACKING_MS == 30000
DEFAULT_UTC_OFFSET == -5

\* config.h display and gesture constants (lines 76-84), enum DisplayPage
\* (wwvb_clock.ino line 114) and the display's size in landscape (line 264)
DISPLAY_BRIGHTNESS == 200
BRIGHTNESS_MIN == 10
BRIGHTNESS_MAX == 255
SWIPE_THRESHOLD_PX == 50
LONG_PRESS_MOVE_PX == 30
SHUTDOWN_HOLD_MS == 10000
SHUTDOWN_FEEDBACK_MS == 2000
PAGE_CLOCK == 0
PAGE_UTC == 1
PAGE_SETTINGS == 2
PAGE_WIFI == 3
DISPLAY_WIDTH == 536
DISPLAY_HEIGHT == 240
WIFI_MAX_VISIBLE == 6

\* The preferences keys "brightness" and "utcOffset": absent on a new device
NoSettings ==
    [hasBrightness |-> FALSE, brightness |-> 0, hasUtcOffset |-> FALSE, utcOffset |-> 0]
MAX_ES100_INIT_RETRIES == 5
LOOP_DELAY_MS == 10
HISTORY_BUCKETS == 48
BUCKET_CAP == 255
SECONDS_PER_HOUR == 3600
DISPLAY_UPDATE_MS == 1000
RECONNECT_DELAY_MS == 5000
WDT_TIMEOUT_MS == 15000
LOW_BATTERY_THRESHOLD == 10

ES100_CTRL0_NORMAL == 1
ES100_CTRL0_TRACKING == 16
ES100_IRQ_RX_COMPLETE == 1
ES100_IRQ_CYCLE_COMPLETE == 4
ES100_STATUS_RX_OK == 1
ES100_STATUS_TRACKING == 128

(***************************************************************************)
(* Bounds of the model                                                     *)
(***************************************************************************)
\* recordAttempt calls explored per run (the lifetime counters are unbounded)
MaxAttempts == 4
MaxQueue == 2
MaxRequests == 2
MaxDecodes == 2
MaxShifts == 1
MaxBlocked == 4
MaxRecorded == 2
MaxHistShifts == 2
MaxSuccesses == 258
MaxElapsedMs == 3615000
MaxBatteryMs == 4000

(***************************************************************************)
(* TimeManager: calendar helpers                                           *)
(***************************************************************************)
ClockTime(y, mo, d, h, mi, s) ==
    [year |-> y, month |-> mo, day |-> d, hour |-> h, minute |-> mi, second |-> s]

isLeapYear(year) ==
    ((year % 4 = 0) /\ (year % 100 # 0)) \/ (year % 400 = 0)

DAYS_IN_MONTH == <<31, 28, 31, 30, 31, 30, 31, 31, 30, 31, 30, 31>>

daysInMonth(year, month) ==
    IF month < 1 \/ month > 12 THEN 30
    ELSE IF month = 2 /\ isLeapYear(year) THEN 29
    ELSE DAYS_IN_MONTH[month]

\* C's % truncates toward zero
CMod(a, b) ==
    IF a >= 0 THEN a % b ELSE 0 - ((0 - a) % b)

\* A calculateDayOfWeek that returns Zeller's h as it is (0 = Saturday)
calculateDayOfWeekZeller(year, month, day) ==
    LET m == IF month < 3 THEN month + 12 ELSE month
        y == IF month < 3 THEN year - 1 ELSE year
        k == y % 100
        j == y \div 100
    IN CMod(day + ((13 * (m + 1)) \div 5) + k + (k \div 4) + (j \div 4) - 2 * j, 7)

\* Zeller's congruence, 0 = Sunday
calculateDayOfWeek(year, month, day) ==
    LET m == IF month < 3 THEN month + 12 ELSE month
        y == IF month < 3 THEN year - 1 ELSE year
        k == y % 100
        j == y \div 100
        h == CMod(day + ((13 * (m + 1)) \div 5) + k + (k \div 4) + (j \div 4) - 2 * j, 7)
    IN CMod(h + 6, 7)

\* getLocalTime: the two rollover loops of the source
RECURSIVE RollBack(_, _)
RollBack(dt, newHour) ==
    IF newHour >= 0 THEN [dt |-> dt, newHour |-> newHour]
    ELSE IF dt.day > 1
         THEN RollBack([dt EXCEPT !.day = @ - 1], newHour + 24)
         ELSE LET mo == IF dt.month > 1 THEN dt.month - 1 ELSE 12
                  yr == IF dt.month > 1 THEN dt.year ELSE dt.year - 1
              IN RollBack([dt EXCEPT !.month = mo, !.year = yr,
                                     !.day = daysInMonth(yr, mo)], newHour + 24)

RECURSIVE RollForward(_, _)
RollForward(dt, newHour) ==
    IF newHour < 24 THEN [dt |-> dt, newHour |-> newHour]
    ELSE IF dt.day < daysInMonth(dt.year, dt.month)
         THEN RollForward([dt EXCEPT !.day = @ + 1], newHour - 24)
         ELSE IF dt.month < 12
              THEN RollForward([dt EXCEPT !.day = 1, !.month = @ + 1], newHour - 24)
              ELSE RollForward([dt EXCEPT !.day = 1, !.month = 1, !.year = @ + 1],
                               newHour - 24)

\* A getLocalTime that wraps the hour and keeps the date
getLocalTimeSameDay(utc, offset, dst) ==
    [utc EXCEPT !.hour = (@ + offset + (IF dst THEN 1 ELSE 0)) % 24]

getLocalTime(utc, offset, dst) ==
    LET totalOffset == offset + (IF dst THEN 1 ELSE 0)
        back == RollBack(utc, utc.hour + totalOffset)
        fwd == RollForward(back.dt, back.newHour)
    IN [fwd.dt EXCEPT !.hour = fwd.newHour]

\* A computeUSDST that starts DST on the first Sunday of March
computeUSDSTFirstSunday(utc, offset) ==
    LET local == getLocalTime(utc, offset, FALSE)
        firstMar == 1 + CMod(7 - calculateDayOfWeek(local.year, 3, 1), 7)
        firstNov == 1 + CMod(7 - calculateDayOfWeek(local.year, 11, 1), 7)
    IN IF local.month < 3 \/ local.month > 11 THEN FALSE
       ELSE IF local.month > 3 /\ local.month < 11 THEN TRUE
       ELSE IF local.month = 3
            THEN (local.day > firstMar) \/ (local.day = firstMar /\ local.hour >= 2)
            ELSE (local.day < firstNov) \/ (local.day = firstNov /\ local.hour < 2)

\* computeUSDST (the caller has checked isTimeSet); evaluated on local standard time
computeUSDST(utc, offset) ==
    LET local == getLocalTime(utc, offset, FALSE)
        dowMar == calculateDayOfWeek(local.year, 3, 1)
        secondSunday == (1 + CMod(7 - dowMar, 7)) + 7
        dowNov == calculateDayOfWeek(local.year, 11, 1)
        firstSunday == 1 + CMod(7 - dowNov, 7)
    IN IF local.month < 3 \/ local.month > 11 THEN FALSE
       ELSE IF local.month > 3 /\ local.month < 11 THEN TRUE
       ELSE IF local.month = 3
            THEN (local.day > secondSunday) \/ (local.day = secondSunday /\ local.hour >= 2)
            ELSE (local.day < firstSunday) \/ (local.day = firstSunday /\ local.hour < 2)

(***************************************************************************)
(* Sample data of the environment                                          *)
(***************************************************************************)
\* Instants the clock reads as time passes (UTC), in order and then around:
\* the compiled default (local daytime, winter), local daytime, an hour that is
\* night only with DST applied, local night.
ClockSamples ==
    << ClockTime(2025, 1, 1, 0, 0, 0),
       ClockTime(2025, 6, 15, 12, 0, 0),
       ClockTime(2025, 6, 16, 2, 30, 0),
       ClockTime(2025, 6, 16, 5, 0, 0) >>

\* What the real-time-clock chip may report at boot: absent, an implausible
\* year (lost power), or a plausible time
RtcReadings ==
    { [present |-> FALSE, time |-> ClockTime(0, 0, 0, 0, 0, 0)],
      [present |-> TRUE, time |-> ClockTime(2000, 1, 1, 0, 0, 7)],
      [present |-> TRUE, time |-> ClockTime(2025, 6, 15, 12, 0, 0)] }

\* The persisted device record at power-up: none, or one saved earlier
PersistedRecords ==
    { [hasTime |-> FALSE, time |-> ClockTime(0, 0, 0, 0, 0, 0), dst |-> FALSE],
      [hasTime |-> TRUE, time |-> ClockTime(2025, 6, 16, 2, 30, 0), dst |-> TRUE] }

\* Receiver date-time registers 0x04..0x09 are BCD (year, month, day, hour,
\* minute, second): 2025-06-15 12:00:00, and 2025-06-16 02:30:00 with the
\* reserved high bits set
NoBcdTime == <<0, 0, 0, 0, 0, 0>>

\* Receiver results at reception complete: status0 and the date-time registers.
\* Decode failed; RX_OK with DST code 0, 1, 2, 3; RX_OK with DST code 3 and the
\* tracking bit
ChipResults ==
    { [status0 |-> 0, time |-> NoBcdTime],
      [status0 |-> 1, time |-> <<37, 6, 21, 18, 0, 0>>],
      [status0 |-> 33, time |-> <<37, 6, 21, 18, 0, 0>>],
      [status0 |-> 65, time |-> <<37, 38, 22, 66, 48, 128>>],
      [status0 |-> 97, time |-> <<37, 38, 22, 66, 48, 128>>],
      [status0 |-> 225, time |-> <<37, 38, 22, 66, 48, 128>>] }

(***************************************************************************)
(* State                                                                   *)
(***************************************************************************)
VARIABLES
    pc,                  \* position of the main program: setup, then the loop phases
    bootEnv,             \* what setup() will find on the buses; cleared by setup
    es100InterruptFlag,  \* volatile flag set by es100ISR
    es100Receiving,
    es100Available,
    es100TrackingReady,
    es100UsingTracking,
    sinceAttempt,        \* millis() - lastSyncAttempt, as of the last reading
    daytimeFailures,
    daytimeSkipActive,
    es100InitRetries,
    drv,                 \* ES100 object: _initialized, _receiving
    enPin,               \* receiver enable line (TRUE = HIGH)
    chip,                \* receiver registers: control0, IRQ status, status0, date-time
    irqEdge,             \* falling edge on IRQ- not yet taken by the ISR
    tm,                  \* TimeManager: UTC fields
    timeSet,             \* TimeManager::_timeSet
    utcOffset,
    dstActive,
    lastTimeSource,
    prefs,               \* persisted device record (time fields, dst)
    hist,                \* ReceptionHistory: buckets and lifetime counters
    ntpStratum,
    ntpRefId,
    drvCalls,            \* receiver driver calls made by the latest step (with
                         \* the start mode, and a date-time read's success)
    wifiState,
    wifiSSID,
    wifiPassword,
    wifiErrorMsg,
    wifiElapsed,         \* millis() - wifiConnectStart, as of the last reading
    portalCredsReceived,
    portal,              \* CaptivePortal object: _running, _statusMessage
    radio,               \* WiFi driver: station and access-point interfaces, link
    ntpRunning,          \* NTPServer::_running
    requestCount,        \* NTPServer::_requestCount
    statusRunning,       \* status web server running
    wifiPrefs,           \* persisted WiFi credentials
    scanned,             \* scannedSSIDs / scannedSecure, scannedCount entries
    selectedNetwork,
    kbMode,
    passwordBuffer,
    udpQueue,            \* sizes of the datagrams waiting on the NTP port
    sentCount,           \* NTP responses put on the wire
    ntpRequest,          \* the NTP request that the last response answers
    ntpResponse,         \* the NTP response last put on the wire
    ntpServerIP,         \* the upstream address of the last ntpClientSync success
    serialLog,           \* log lines written by the latest step
    accumMillis,         \* TimeManager::_accumMillis
    setAt,               \* the time the clock was last set to
    elapsedMs,           \* milliseconds of millis() since the clock was last set
    histMillis,          \* milliseconds of millis() since receptionHistory.begin()
    shifts,              \* bucket shifts since receptionHistory.begin()
    blocked,             \* loop passes so far that blocked in the WiFi code
    calcIn,              \* arguments of a calendar function call
    calcOut,             \* its result
    statusData,          \* statusData: batteryMv, batteryPct, batteryCharging
    lowBatteryAlerted,   \* TRUE once the low-battery alert has been triggered
    battLog,             \* battery lines logged by the latest per-second block
    initSince,           \* millis() - lastES100InitAttempt, as of the last reading
    initAttempts,        \* initialization retries made since boot
    busLog,              \* bus conditions of the latest receiver register transaction
    currentPage,         \* the page on display: PAGE_CLOCK .. PAGE_WIFI
    currentBrightness,   \* display brightness
    touchActive,         \* a finger is on the screen
    touchStartX,         \* where the touch began
    touchStartY,
    touchLastX,          \* where the finger was last seen
    touchLastY,
    touchHeld,           \* millis() - touchStartTime at the last handleTouch()
    sliderDragging,      \* the brightness slider was moved in this touch
    shutdownCountdownActive, \* the shutdown countdown overlay is shown
    asleep,              \* esp_deep_sleep_start() was reached
    savedSettings,       \* preferences keys "brightness" and "utcOffset"
    nowMillis,           \* millis() as of the last reading, with the number of
                         \* times the 32-bit counter has rolled over
    lastTimeSyncMillis   \* millis() when the clock was last synced

deviceVars ==
    << statusData, lowBatteryAlerted, battLog, initSince, initAttempts, busLog,
       currentPage, currentBrightness, touchActive, touchStartX, touchStartY,
       touchLastX, touchLastY, touchHeld, sliderDragging, shutdownCountdownActive,
       asleep, savedSettings, nowMillis >>

syncVars ==
    << pc, bootEnv, es100InterruptFlag, es100Receiving, es100Available, es100TrackingReady,
       es100UsingTracking, sinceAttempt, daytimeFailures, daytimeSkipActive,
       es100InitRetries, drv, enPin, chip, irqEdge, tm, timeSet, utcOffset,
       dstActive, lastTimeSource, lastTimeSyncMillis, prefs, hist, ntpStratum,
       ntpRefId, drvCalls, deviceVars >>

netVars ==
    << wifiState, wifiSSID, wifiPassword, wifiErrorMsg, wifiElapsed,
       portalCredsReceived, portal, radio, ntpRunning, requestCount, statusRunning,
       wifiPrefs, scanned, selectedNetwork, kbMode, passwordBuffer, udpQueue,
       sentCount, ntpRequest, ntpResponse, ntpServerIP, serialLog >>

timeVars ==
    << accumMillis, setAt, elapsedMs, histMillis, shifts, blocked, calcIn, calcOut >>

vars == << syncVars, netVars, timeVars >>

\* The state the sync code works on, as one record, and writing it back
Cur ==
    [ es100InterruptFlag |-> es100InterruptFlag, es100Receiving |-> es100Receiving,
      es100Available |-> es100Available, es100TrackingReady |-> es100TrackingReady,
      es100UsingTracking |-> es100UsingTracking, sinceAttempt |-> sinceAttempt,
      daytimeFailures |-> daytimeFailures, daytimeSkipActive |-> daytimeSkipActive,
      es100InitRetries |-> es100InitRetries, drv |-> drv, enPin |-> enPin,
      chip |-> chip, tm |-> tm, timeSet |-> timeSet, utcOffset |-> utcOffset,
      dstActive |-> dstActive, lastTimeSource |-> lastTimeSource, prefs |-> prefs,
      hist |-> hist, ntpStratum |-> ntpStratum, ntpRefId |-> ntpRefId,
      drvCalls |-> {},
      statusData |-> statusData,
      lowBatteryAlerted |-> lowBatteryAlerted,
      battLog |-> battLog,
      initSince |-> initSince,
      initAttempts |-> initAttempts,
      busLog |-> busLog,
      currentPage |-> currentPage,
      currentBrightness |-> currentBrightness,
      touchActive |-> touchActive,
      touchStartX |-> touchStartX,
      touchStartY |-> touchStartY,
      touchLastX |-> touchLastX,
      touchLastY |-> touchLastY,
      touchHeld |-> touchHeld,
      sliderDragging |-> sliderDragging,
      shutdownCountdownActive |-> shutdownCountdownActive,
      asleep |-> asleep,
      savedSettings |-> savedSettings,
      nowMillis |-> nowMillis,
      lastTimeSyncMillis |-> lastTimeSyncMillis ]

Commit(s) ==
    /\ es100InterruptFlag' = s.es100InterruptFlag
    /\ es100Receiving' = s.es100Receiving
    /\ es100Available' = s.es100Available
    /\ es100TrackingReady' = s.es100TrackingReady
    /\ es100UsingTracking' = s.es100UsingTracking
    /\ sinceAttempt' = s.sinceAttempt
    /\ daytimeFailures' = s.daytimeFailures
    /\ daytimeSkipActive' = s.daytimeSkipActive
    /\ es100InitRetries' = s.es100InitRetries
    /\ drv' = s.drv
    /\ enPin' = s.enPin
    /\ chip' = s.chip
    /\ tm' = s.tm
    /\ timeSet' = s.timeSet
    /\ utcOffset' = s.utcOffset
    /\ dstActive' = s.dstActive
    /\ lastTimeSource' = s.lastTimeSource
    /\ prefs' = s.prefs
    /\ hist' = s.hist
    /\ ntpStratum' = s.ntpStratum
    /\ ntpRefId' = s.ntpRefId
    /\ drvCalls' = s.drvCalls
    /\ statusData' = s.statusData
    /\ lowBatteryAlerted' = s.lowBatteryAlerted
    /\ battLog' = s.battLog
    /\ initSince' = s.initSince
    /\ initAttempts' = s.initAttempts
    /\ busLog' = s.busLog
    /\ currentPage' = s.currentPage
    /\ currentBrightness' = s.currentBrightness
    /\ touchActive' = s.touchActive
    /\ touchStartX' = s.touchStartX
    /\ touchStartY' = s.touchStartY
    /\ touchLastX' = s.touchLastX
    /\ touchLastY' = s.touchLastY
    /\ touchHeld' = s.touchHeld
    /\ sliderDragging' = s.sliderDragging
    /\ shutdownCountdownActive' = s.shutdownCountdownActive
    /\ asleep' = s.asleep
    /\ savedSettings' = s.savedSettings
    /\ nowMillis' = s.nowMillis
    /\ lastTimeSyncMillis' = s.lastTimeSyncMillis

ChipOff == [ctrl |-> 0, irq |-> 0, status0 |-> 0, time |-> NoBcdTime]

\* The element of a one-element set: { e(x) : x \in {v} } evaluates v once
\* however often e uses it
Only(S) == CHOOSE x \in S : TRUE

(***************************************************************************)
(* ReceptionHistory                                                        *)
(***************************************************************************)
\* lastSuccessTime holds millis() of the last success: 0 = never, 1 = any
\* non-zero reading
HistoryReset ==
    [ buckets |-> [i \in 1..HISTORY_BUCKETS |-> 0],
      totalSuccess |-> 0, totalAttempts |-> 0, lastSuccessTime |-> 0,
      secondsInCurrentHour |-> 0 ]

\* ReceptionHistory::shiftBuckets (lines 79-89) and hourlyTick (lines 67-77)
shiftBuckets(h) ==
    [h EXCEPT !.buckets = [i \in 1..HISTORY_BUCKETS |->
                             IF i < HISTORY_BUCKETS THEN h.buckets[i + 1] ELSE 0]]

\* An hourlyTick that shifts at the 3600th call and at every call after it
hourlyTickNoRestart(h) ==
    LET a == [h EXCEPT !.secondsInCurrentHour = @ + 1]
    IN IF a.secondsInCurrentHour >= SECONDS_PER_HOUR THEN shiftBuckets(a) ELSE a

hourlyTick(h) ==
    LET a == [h EXCEPT !.secondsInCurrentHour = @ + 1]
    IN IF a.secondsInCurrentHour >= SECONDS_PER_HOUR
       THEN shiftBuckets([a EXCEPT !.secondsInCurrentHour = 0])
       ELSE a

\* _buckets[_currentBucket], _currentBucket = HISTORY_BUCKETS - 1
NewestBucket(h) == h.buckets[HISTORY_BUCKETS]

\* A recordAttempt whose bucket is a plain 8-bit counter
recordAttemptWrapping(h, success) ==
    LET a == [h EXCEPT !.totalAttempts = @ + 1]
    IN IF success
       THEN [a EXCEPT !.totalSuccess = @ + 1,
                      !.lastSuccessTime = 1,
                      !.buckets[HISTORY_BUCKETS] = (@ + 1) % 256]
       ELSE a

recordAttempt(h, success) ==
    LET a == [h EXCEPT !.totalAttempts = @ + 1]
    IN IF success
       THEN [a EXCEPT !.totalSuccess = @ + 1,
                      !.lastSuccessTime = 1,
                      !.buckets[HISTORY_BUCKETS] =
                          IF @ < BUCKET_CAP THEN @ + 1 ELSE @]
       ELSE a

(***************************************************************************)
(* ES100 driver                                                            *)
(***************************************************************************)
bcdToDec(bcd) == ((bcd \div 16) * 10) + (bcd % 16)

powerOff(s) ==
    [s EXCEPT !.enPin = FALSE, !.drv.receiving = FALSE, !.chip = ChipOff]

\* begin(): power-cycle, read the device id, power off whatever the result
begin(s, found) ==
    powerOff([s EXCEPT !.drv.initialized = found])

\* startReception(mode); writeOk: whether the control0 write is acknowledged.
\* Yields the new state and the return value.
startReception(s, mode, writeOk) ==
    LET c == [s EXCEPT !.drvCalls = @ \cup {"startReception",
                                             IF mode = ES100_CTRL0_NORMAL
                                             THEN "startReception(NORMAL)"
                                             ELSE "startReception(TRACKING)"}]
    IN IF ~c.drv.initialized THEN [s |-> c, ok |-> FALSE]
       ELSE LET p == [c EXCEPT !.enPin = TRUE]
            IN IF writeOk
               THEN [s |-> [p EXCEPT !.chip = [ChipOff EXCEPT !.ctrl = mode],
                                     !.drv.receiving = TRUE],
                     ok |-> TRUE]
               ELSE [s |-> p, ok |-> FALSE]

stopReception(s) ==
    powerOff([s EXCEPT !.drvCalls = @ \cup {"stopReception"}])

\* readIRQStatus: reading clears the register (and releases IRQ-)
readIRQStatus(s) ==
    LET c == [s EXCEPT !.drvCalls = @ \cup {"readIRQStatus"}]
    IN IF ~c.enPin THEN [s |-> c, val |-> 0]
       ELSE [s |-> [c EXCEPT !.chip.irq = 0], val |-> c.chip.irq]

readStatus0(s) ==
    [s |-> [s EXCEPT !.drvCalls = @ \cup {"readStatus0"}],
     val |-> IF ~s.enPin THEN 0 ELSE s.chip.status0]

\* readDateTime; burstOk: whether the 6-byte burst read returns 6 bytes
readDateTime(s, burstOk) ==
    LET c == [s EXCEPT !.drvCalls = @ \cup {"readDateTime"}]
        status0 == IF ~c.enPin THEN 0 ELSE c.chip.status0
        r == c.chip.time
    IN IF ~c.enPin \/ status0 % 2 # ES100_STATUS_RX_OK \/ ~burstOk
       THEN [s |-> c, ok |-> FALSE, time |-> ClockTime(0, 0, 0, 0, 0, 0)]
       ELSE [s |-> [c EXCEPT !.drvCalls = @ \cup {"readDateTime=true"}], ok |-> TRUE,
             time |-> ClockTime(2000 + bcdToDec(r[1]),
                                bcdToDec(r[2] % 32),
                                bcdToDec(r[3] % 64),
                                bcdToDec(r[4] % 64),
                                bcdToDec(r[5] % 128),
                                bcdToDec(r[6] % 128))]

(***************************************************************************)
(* Battery percentage (LiPo discharge curve)                               *)
(***************************************************************************)
voltTable == << 3300, 3500, 3600, 3700, 3750, 3800, 3850, 3900, 3950, 4000, 4100, 4200 >>
pctTable == << 0, 5, 10, 20, 30, 40, 50, 60, 70, 80, 90, 100 >>
tableSize == Len(voltTable)

\* A lipoBatteryPercent that answers the table entry below, without interpolation
lipoBatteryPercentStep(mv) ==
    IF mv <= voltTable[1] THEN 0
    ELSE IF mv >= voltTable[tableSize] THEN 100
    ELSE pctTable[(CHOOSE i \in 2..tableSize :
                      /\ mv <= voltTable[i]
                      /\ \A k \in 2..(i - 1) : mv > voltTable[k]) - 1]

\* lipoBatteryPercent (lines 218-240); the tables are indexed from 1 here
lipoBatteryPercent(mv) ==
    IF mv <= voltTable[1] THEN 0
    ELSE IF mv >= voltTable[tableSize] THEN 100
    ELSE LET i == CHOOSE i \in 2..tableSize :
                     /\ mv <= voltTable[i]
                     /\ \A k \in 2..(i - 1) : mv > voltTable[k]
             rangeMv == voltTable[i] - voltTable[i - 1]
             rangePct == pctTable[i] - pctTable[i - 1]
         IN pctTable[i - 1] + (((mv - voltTable[i - 1]) * rangePct) \div rangeMv)

\* A low-battery check that clears the alert as soon as the first test fails
lowBatteryCheckNoHysteresis(s, reading, warnDue) ==
    LET pct == lipoBatteryPercent(reading.mv)
        a == [s EXCEPT !.statusData = [batteryMv |-> reading.mv, batteryPct |-> pct,
                                       batteryCharging |-> reading.charging]]
    IN IF pct <= LOW_BATTERY_THRESHOLD /\ ~reading.charging /\ reading.mv > 0
       THEN [a EXCEPT !.lowBatteryAlerted = TRUE,
                      !.battLog = (IF ~s.lowBatteryAlerted THEN {"LOW BATTERY ALERT"} ELSE {})
                                  \cup (IF warnDue THEN {"Warning"} ELSE {})]
       ELSE [a EXCEPT !.lowBatteryAlerted = FALSE, !.battLog = {}]

\* The once-per-second block's status update and low-battery alert (lines
\* 2495-2518). reading: amoled.getBattVoltage() and amoled.isCharging();
\* warnDue: millis() - lastLowBattWarn >= LOW_BATTERY_WARN_MS
lowBatteryCheck(s, reading, warnDue) ==
    LET pct == lipoBatteryPercent(reading.mv)
        a == [s EXCEPT !.statusData = [batteryMv |-> reading.mv, batteryPct |-> pct,
                                       batteryCharging |-> reading.charging]]
    IN IF pct <= LOW_BATTERY_THRESHOLD /\ ~reading.charging /\ reading.mv > 0
       THEN [a EXCEPT !.lowBatteryAlerted = TRUE,
                      !.battLog = (IF ~s.lowBatteryAlerted THEN {"LOW BATTERY ALERT"} ELSE {})
                                  \cup (IF warnDue THEN {"Warning"} ELSE {})]
       ELSE IF pct > LOW_BATTERY_THRESHOLD + 5
            THEN [a EXCEPT !.lowBatteryAlerted = FALSE, !.battLog = {}]
            ELSE [a EXCEPT !.battLog = {}]

(***************************************************************************)
(* ES100 driver: register transactions on the bus                          *)
(***************************************************************************)
ES100_REG_CONTROL0 == 0
ES100_REG_IRQ_STATUS == 2
ES100_REG_STATUS0 == 3
ES100_REG_YEAR == 4
ES100_REG_DEVICE_ID == 13
ES100_DEVICE_ID == 16

\* What the powered receiver holds in a register
RegisterValue(c, reg) ==
    IF reg = ES100_REG_CONTROL0 THEN c.ctrl
    ELSE IF reg = ES100_REG_IRQ_STATUS THEN c.irq
    ELSE IF reg = ES100_REG_STATUS0 THEN c.status0
    ELSE IF reg \in ES100_REG_YEAR..(ES100_REG_YEAR + 5) THEN c.time[(reg - ES100_REG_YEAR) + 1]
    ELSE IF reg = ES100_REG_DEVICE_ID THEN ES100_DEVICE_ID
    ELSE 0

\* The write of the register address: beginTransmission, write(reg),
\* endTransmission(sendStop). With sendStop false the bus is held for the read.
AddressPhase(sendStop) ==
    IF sendStop THEN << "START", "WRITE", "STOP" >> ELSE << "START", "WRITE" >>

\* The data phase of requestFrom after an address phase that ended with or
\* without a STOP
DataPhase(sendStop) ==
    IF sendStop THEN << "START", "READ", "STOP" >> ELSE << "RESTART", "READ", "STOP" >>

\* The read clears the IRQ status register (and releases IRQ-)
AfterRead(c, first, count) ==
    IF ES100_REG_IRQ_STATUS \in first..(first + count - 1) THEN [c EXCEPT !.irq = 0] ELSE c

\* ES100::readRegister (lines 430-448). ack: endTransmission reports 0;
\* got: requestFrom returns the byte. Yields the state and the value.
readRegister(s, reg, ack, got) ==
    IF ~s.enPin THEN [s |-> [s EXCEPT !.busLog = << >>], val |-> 255]
    ELSE IF ~ack THEN [s |-> [s EXCEPT !.busLog = AddressPhase(FALSE)], val |-> 255]
    ELSE IF ~got
         THEN [s |-> [s EXCEPT !.busLog = AddressPhase(FALSE) \o << "RESTART", "STOP" >>],
               val |-> 255]
         ELSE [s |-> [s EXCEPT !.busLog = AddressPhase(FALSE) \o DataPhase(FALSE),
                               !.chip = AfterRead(@, reg, 1)],
               val |-> RegisterValue(s.chip, reg)]

\* ES100::readRegisters (lines 469-488). bytesRead: what requestFrom returns.
\* Yields the state, the count and the bytes read.
readRegisters(s, startReg, count, ack, bytesRead) ==
    IF ~s.enPin THEN [s |-> [s EXCEPT !.busLog = << >>], n |-> 0, buffer |-> << >>]
    ELSE IF ~ack
         THEN [s |-> [s EXCEPT !.busLog = AddressPhase(FALSE)], n |-> 0, buffer |-> << >>]
    ELSE IF bytesRead = 0
         THEN [s |-> [s EXCEPT !.busLog = AddressPhase(FALSE) \o << "RESTART", "STOP" >>],
               n |-> 0, buffer |-> << >>]
         ELSE [s |-> [s EXCEPT !.busLog = AddressPhase(FALSE) \o DataPhase(FALSE),
                               !.chip = AfterRead(@, startReg, bytesRead)],
               n |-> bytesRead,
               buffer |-> [i \in 1..bytesRead |-> RegisterValue(s.chip, (startReg + i) - 1)]]

(***************************************************************************)
(* Application: WWVB sync schedule                                         *)
(***************************************************************************)
isNighttimeWindow(s) ==
    IF ~s.timeSet THEN TRUE
    ELSE LET local == getLocalTime(s.tm, s.utcOffset, s.dstActive)
         IN local.hour >= SYNC_NIGHT_START_HOUR \/ local.hour < SYNC_NIGHT_END_HOUR

\* getSyncInterval: yields the state (the night branch resets the backoff) and
\* the interval
getSyncInterval(s) ==
    IF s.hist.lastSuccessTime = 0
    THEN [s |-> s, interval |-> SYNC_INTERVAL_INITIAL_MS]
    ELSE IF isNighttimeWindow(s)
    THEN [s |-> [s EXCEPT !.daytimeFailures = 0, !.daytimeSkipActive = FALSE],
          interval |-> SYNC_INTERVAL_NIGHT_MS]
    ELSE [s |-> s, interval |-> SYNC_INTERVAL_DAY_MS]

\* recordSyncFailure with the threshold compared by > instead of >=
recordSyncFailureLate(s) ==
    LET r == [s EXCEPT !.hist = recordAttempt(@, FALSE)]
    IN IF ~isNighttimeWindow(r)
       THEN LET f == (r.daytimeFailures + 1) % 256
            IN [r EXCEPT !.daytimeFailures = f,
                         !.daytimeSkipActive =
                             IF f > SYNC_DAY_MAX_FAILURES THEN TRUE ELSE @]
       ELSE r

recordSyncFailure(s) ==
    LET r == [s EXCEPT !.hist = recordAttempt(@, FALSE)]
    IN IF ~isNighttimeWindow(r)
       THEN LET f == (r.daytimeFailures + 1) % 256
            IN [r EXCEPT !.daytimeFailures = f,
                         !.daytimeSkipActive =
                             IF f >= SYNC_DAY_MAX_FAILURES THEN TRUE ELSE @]
       ELSE r

\* A start that leaves the interrupt flag as it finds it
StartOrFailKeepingFlag(s, mode, writeOk) ==
    Only({ IF r.ok
           THEN [r.s EXCEPT !.es100Receiving = TRUE, !.sinceAttempt = 0]
           ELSE recordSyncFailure([r.s EXCEPT !.es100UsingTracking = FALSE]) :
           r \in {startReception(s, mode, writeOk)} })

\* The tail shared by startWWVBSync and the two fallbacks: clear the flag, start
\* a reception in `mode`, record a failure if it does not start
StartOrFail(s, mode, writeOk) ==
    Only({ IF r.ok
           THEN [r.s EXCEPT !.es100Receiving = TRUE, !.sinceAttempt = 0]
           ELSE recordSyncFailure([r.s EXCEPT !.es100UsingTracking = FALSE]) :
           r \in {startReception([s EXCEPT !.es100InterruptFlag = FALSE],
                                  mode, writeOk)} })

startWWVBSync(s, writeOk) ==
    IF s.es100Receiving THEN s
    ELSE IF ~s.es100Available THEN [s EXCEPT !.sinceAttempt = 0]
    ELSE IF s.es100TrackingReady
         THEN StartOrFail([s EXCEPT !.es100UsingTracking = TRUE],
                          ES100_CTRL0_NORMAL + ES100_CTRL0_TRACKING, writeOk)
         ELSE StartOrFail([s EXCEPT !.es100UsingTracking = FALSE],
                          ES100_CTRL0_NORMAL, writeOk)

\* A stop that powers the receiver down and leaves the program's flag set
stopWWVBSyncDriverOnly(s) ==
    stopReception(s)

stopWWVBSync(s) ==
    [stopReception(s) EXCEPT !.es100Receiving = FALSE]

setTime(s, t) ==
    [s EXCEPT !.tm = t, !.timeSet = TRUE]

\* TimeManager::incrementSecond (lines 204-231)
incrementSecond(t) ==
    IF t.second + 1 < 60 THEN [t EXCEPT !.second = @ + 1]
    ELSE IF t.minute + 1 < 60 THEN [t EXCEPT !.second = 0, !.minute = @ + 1]
    ELSE IF t.hour + 1 < 24 THEN [t EXCEPT !.second = 0, !.minute = 0, !.hour = @ + 1]
    ELSE IF t.day + 1 <= daysInMonth(t.year, t.month)
    THEN [t EXCEPT !.second = 0, !.minute = 0, !.hour = 0, !.day = @ + 1]
    ELSE IF t.month + 1 <= 12
    THEN [t EXCEPT !.second = 0, !.minute = 0, !.hour = 0, !.day = 1, !.month = @ + 1]
    ELSE [t EXCEPT !.second = 0, !.minute = 0, !.hour = 0, !.day = 1, !.month = 1,
                   !.year = (@ + 1) % 65536]

\* The while loop of tick (lines 197-200)
RECURSIVE TickSeconds(_, _)
TickSeconds(t, accum) ==
    IF accum >= 1000 THEN TickSeconds(incrementSecond(t), accum - 1000)
    ELSE [tm |-> t, accumMillis |-> accum]

\* A tick that drops what is left of the elapsed time below one second
tickWholeSeconds(c, elapsed) ==
    IF ~c.timeSet THEN c
    ELSE LET r == TickSeconds(c.tm, (c.accumMillis + elapsed) % 65536)
         IN [c EXCEPT !.tm = r.tm, !.accumMillis = 0]

\* TimeManager::tick (lines 187-202) on the clock c = (tm, timeSet,
\* accumMillis); elapsed: millis() - _lastTickMillis. _accumMillis is 16 bits wide.
tick(c, elapsed) ==
    IF ~c.timeSet THEN c
    ELSE LET r == TickSeconds(c.tm, (c.accumMillis + elapsed) % 65536)
         IN [c EXCEPT !.tm = r.tm, !.accumMillis = r.accumMillis]

saveTimeToPreferences(s) ==
    [s EXCEPT !.prefs = [hasTime |-> TRUE, time |-> s.tm, dst |-> s.dstActive]]

\* NTPServer::setStratum(stratum, const char*) (lines 191-199): up to four
\* characters of the text, the rest zero; and "WWVB" as its character codes
RefIdWWVB == << 87, 87, 86, 66 >>

setStratum(s, stratum, refId) ==
    [s EXCEPT !.ntpStratum = stratum % 256,
              !.ntpRefId = [i \in 1..4 |-> IF i <= Len(refId) THEN refId[i] ELSE 0]]

\* A setStratum that leaves the reference identifier as it was
setStratumOnly(s, stratum, refIP) ==
    [s EXCEPT !.ntpStratum = stratum % 256]

\* NTPServer::setStratum(stratum, IPAddress) (lines 201-208)
setStratumIP(s, stratum, refIP) ==
    [s EXCEPT !.ntpStratum = stratum % 256,
              !.ntpRefId = << refIP[1], refIP[2], refIP[3], refIP[4] >>]

\* The success branch with DST applied for any non-zero DST code
DecodeSuccessAnyDst(s, rxTime, status0) ==
    LET dstBits == (status0 \div 32) % 4
        a == setTime(s, rxTime)
        b == [a EXCEPT !.dstActive = (dstBits >= 1)]
        c == [b EXCEPT !.hist = recordAttempt(@, TRUE)]
        d == saveTimeToPreferences(c)
        e == setStratum([d EXCEPT !.lastTimeSource = "WWVB",
                                  !.lastTimeSyncMillis = d.nowMillis], 1, RefIdWWVB)
    IN [e EXCEPT !.es100TrackingReady = TRUE,
                 !.daytimeFailures = 0,
                 !.daytimeSkipActive = FALSE]

\* The success branch of handleES100Interrupt (lines 2184-2212)
DecodeSuccess(s, rxTime, status0) ==
    LET dstBits == (status0 \div 32) % 4
        a == setTime(s, rxTime)
        b == [a EXCEPT !.dstActive = (dstBits >= 2)]
        c == [b EXCEPT !.hist = recordAttempt(@, TRUE)]
        d == saveTimeToPreferences(c)
        e == setStratum([d EXCEPT !.lastTimeSource = "WWVB",
                                  !.lastTimeSyncMillis = d.nowMillis], 1, RefIdWWVB)
    IN [e EXCEPT !.es100TrackingReady = TRUE,
                 !.daytimeFailures = 0,
                 !.daytimeSkipActive = FALSE]

\* The end of the RX_COMPLETE branch (lines 2245-2247)
EndReception(s) ==
    stopReception([s EXCEPT !.es100Receiving = FALSE, !.es100UsingTracking = FALSE])

\* Tracking-mode decode failure treated like a normal-mode one: no fallback
TrackingNoFallback(s, writeOk) ==
    EndReception(recordSyncFailure(s))

\* Tracking-mode decode failure (lines 2221-2239)
TrackingFallback(s, writeOk) ==
    LET a == stopReception([s EXCEPT !.es100Receiving = FALSE,
                                     !.es100UsingTracking = FALSE])
        b == [a EXCEPT !.es100TrackingReady = FALSE]
    IN StartOrFail(b, ES100_CTRL0_NORMAL, writeOk)

\* handleES100Interrupt; burstOk, writeOk: bus outcomes of the date-time read
\* and of the fallback's control write
handleES100Interrupt(s, burstOk, writeOk) ==
    IF ~s.es100InterruptFlag \/ ~s.es100Receiving THEN s
    ELSE
      Only({ IF irq.val % 2 # ES100_IRQ_RX_COMPLETE THEN irq.s
             ELSE Only({ IF st.val % 2 # ES100_STATUS_RX_OK
                         THEN IF st.s.es100UsingTracking
                              THEN TrackingFallback(st.s, writeOk)
                              ELSE EndReception(recordSyncFailure(st.s))
                         ELSE Only({ IF dt.ok
                                     THEN EndReception(DecodeSuccess(dt.s, dt.time,
                                                                     st.val))
                                     ELSE EndReception(recordSyncFailure(dt.s)) :
                                     dt \in {readDateTime(st.s, burstOk)} }) :
                         st \in {readStatus0(irq.s)} }) :
             irq \in {readIRQStatus([s EXCEPT !.es100InterruptFlag = FALSE])} })

(***************************************************************************)
(* Application: receiver initialisation                                    *)
(***************************************************************************)
initializeES100(s, found) ==
    LET b == begin(s, found)
    IN IF found
       THEN [b EXCEPT !.es100Available = TRUE, !.es100InitRetries = 0]
       ELSE [b EXCEPT !.es100Available = FALSE]

ES100_RETRY_INTERVALS == << 5000, 10000, 30000, 60000, 300000 >>

\* A timer that waits the first interval before every retry
retryDueFirstInterval(s, now) ==
    now >= ES100_RETRY_INTERVALS[1]

\* retryES100Initialization's timer (lines 2012-2016); now: millis() -
\* lastES100InitAttempt
retryDue(s, now) ==
    LET retryIndex == IF s.es100InitRetries < MAX_ES100_INIT_RETRIES
                      THEN s.es100InitRetries ELSE MAX_ES100_INIT_RETRIES - 1
    IN now >= ES100_RETRY_INTERVALS[retryIndex + 1]

\* retryES100Initialization; due: whether the retry interval has elapsed
retryES100Initialization(s, due, found) ==
    IF s.es100Available \/ s.es100InitRetries >= MAX_ES100_INIT_RETRIES THEN s
    ELSE IF due
         THEN initializeES100([s EXCEPT !.es100InitRetries = @ + 1], found)
         ELSE s

(***************************************************************************)
(* Time                                                                    *)
(***************************************************************************)
\* millis() - lastSyncAttempt is kept at the values the loop's comparisons
\* distinguish: each threshold and the next loop pass after it
TimePoints ==
    {0} \cup UNION { {x, x + LOOP_DELAY_MS} :
                      x \in {SYNC_TIMEOUT_TRACKING_MS, SYNC_TIMEOUT_NORMAL_MS} }
        \cup {SYNC_INTERVAL_INITIAL_MS, SYNC_INTERVAL_NIGHT_MS, SYNC_INTERVAL_DAY_MS}

LastTimePoint == CHOOSE x \in TimePoints : \A y \in TimePoints : y <= x

NextTimePoint(x) ==
    CHOOSE y \in TimePoints : y > x /\ \A z \in TimePoints : z > x => y <= z

NextClock(t) ==
    LET i == CHOOSE k \in 1..Len(ClockSamples) : ClockSamples[k] = t
    IN ClockSamples[(i % Len(ClockSamples)) + 1]

(***************************************************************************)
(* WiFi manager, captive portal, NTP client and server                     *)
(***************************************************************************)
WIFI_CONNECT_TIMEOUT == 15000
NTP_PACKET_SIZE == 48

\* uint32_t values, as two 16-bit halves: hi * 65536 + lo
U32(hi, lo) == [hi |-> hi, lo |-> lo]

ToU32(n) == U32((n \div 65536) % 65536, n % 65536)

U32Add(a, b) ==
    U32((a.hi + b.hi + ((a.lo + b.lo) \div 65536)) % 65536, (a.lo + b.lo) % 65536)

U32Sub(a, b) ==
    U32((a.hi - b.hi - (IF a.lo < b.lo THEN 1 ELSE 0)) % 65536, (a.lo - b.lo) % 65536)

U32Less(a, b) == a.hi < b.hi \/ (a.hi = b.hi /\ a.lo < b.lo)

\* 2208988800, and the server's threshold 3786825600 (2020-01-01)
NTP_EPOCH_OFFSET == U32(33706, 32384)
NTP_MIN_VALID == U32(57782, 24448)

\* Network names and passwords in use around the device
Ssids == {"home", "cafe"}
Passwords == {"", "pw"}

\* What a scan can find: nothing, or a secured and an open network
ScanResults ==
    { << >>,
      << [ssid |-> "home", secure |-> TRUE], [ssid |-> "cafe", secure |-> FALSE] >> }

\* WiFi credentials in flash at boot
SavedCredentials ==
    { [has |-> FALSE, ssid |-> "", pass |-> ""],
      [has |-> TRUE, ssid |-> "home", pass |-> "pw"] }

\* What ntpClientSync gets back: nothing (DNS, socket or 2 s timeout), a zero
\* transmit timestamp, or 3958977600 (2025-06-15 12:00:00)
\* ip: the address time.nist.gov resolved to
NoReply == [received |-> FALSE, ntpSeconds |-> U32(0, 0), ip |-> << 132, 163, 97, 1 >>]

NtpReplies ==
    { NoReply,
      [received |-> TRUE, ntpSeconds |-> U32(0, 0), ip |-> << 132, 163, 97, 1 >>],
      [received |-> TRUE, ntpSeconds |-> U32(60409, 13376), ip |-> << 132, 163, 97, 1 >>],
      [received |-> TRUE, ntpSeconds |-> U32(60409, 13376), ip |-> << 129, 6, 15, 28 >>] }

\* Times the clock is set to while the NTP server runs: the last second of 2019,
\* the first of 2020, 2025-06-15 12:00:00, and 2036-02-07 06:28:16, when the
\* 32-bit seconds of the NTP epoch have rolled over
NtpClockSamples ==
    { ClockTime(2019, 12, 31, 23, 59, 59), ClockTime(2020, 1, 1, 0, 0, 0),
      ClockTime(2025, 6, 15, 12, 0, 0), ClockTime(2036, 2, 7, 6, 28, 16) }

\* The state the network code works on, as one record, and writing it back
CurNet ==
    [ wifiState |-> wifiState, wifiSSID |-> wifiSSID, wifiPassword |-> wifiPassword,
      wifiErrorMsg |-> wifiErrorMsg, wifiElapsed |-> wifiElapsed,
      portalCredsReceived |-> portalCredsReceived, portal |-> portal,
      radio |-> radio, ntpRunning |-> ntpRunning, requestCount |-> requestCount,
      statusRunning |-> statusRunning, wifiPrefs |-> wifiPrefs, scanned |-> scanned,
      selectedNetwork |-> selectedNetwork, kbMode |-> kbMode,
      passwordBuffer |-> passwordBuffer, udpQueue |-> udpQueue,
      sentCount |-> sentCount, ntpRequest |-> ntpRequest, ntpResponse |-> ntpResponse,
      ntpServerIP |-> ntpServerIP, tm |-> tm, timeSet |-> timeSet,
      utcOffset |-> utcOffset, dstActive |-> dstActive,
      lastTimeSource |-> lastTimeSource, ntpStratum |-> ntpStratum,
      ntpRefId |-> ntpRefId, nowMillis |-> nowMillis,
      lastTimeSyncMillis |-> lastTimeSyncMillis, serialLog |-> {} ]

CommitNetVars(w) ==
    /\ wifiState' = w.wifiState
    /\ wifiSSID' = w.wifiSSID
    /\ wifiPassword' = w.wifiPassword
    /\ wifiErrorMsg' = w.wifiErrorMsg
    /\ wifiElapsed' = w.wifiElapsed
    /\ portalCredsReceived' = w.portalCredsReceived
    /\ portal' = w.portal
    /\ radio' = w.radio
    /\ ntpRunning' = w.ntpRunning
    /\ requestCount' = w.requestCount
    /\ statusRunning' = w.statusRunning
    /\ wifiPrefs' = w.wifiPrefs
    /\ scanned' = w.scanned
    /\ selectedNetwork' = w.selectedNetwork
    /\ kbMode' = w.kbMode
    /\ passwordBuffer' = w.passwordBuffer
    /\ udpQueue' = w.udpQueue
    /\ sentCount' = w.sentCount
    /\ ntpRequest' = w.ntpRequest
    /\ ntpResponse' = w.ntpResponse
    /\ ntpServerIP' = w.ntpServerIP
    /\ serialLog' = w.serialLog

\* The receiver, its schedule and the history are out of the network code's reach
CommitNet(w) ==
    /\ CommitNetVars(w)
    /\ tm' = w.tm
    /\ timeSet' = w.timeSet
    /\ dstActive' = w.dstActive
    /\ lastTimeSource' = w.lastTimeSource
    /\ lastTimeSyncMillis' = w.lastTimeSyncMillis
    /\ ntpStratum' = w.ntpStratum
    /\ ntpRefId' = w.ntpRefId
    /\ drvCalls' = {}
    /\ UNCHANGED << pc, es100InterruptFlag, es100Receiving, es100Available,
                    es100TrackingReady, es100UsingTracking, sinceAttempt,
                    daytimeFailures, daytimeSkipActive, es100InitRetries, deviceVars, drv, enPin,
                    chip, irqEdge, utcOffset, prefs, hist, bootEnv >>
    /\ UNCHANGED timeVars

Logged(w, line) == [w EXCEPT !.serialLog = @ \cup {line}]

\* TimeManager::setUnixTime (lines 44-79) and getUnixTime (lines 147-167)
SecondsInYear(y) == IF isLeapYear(y) THEN 366 * 86400 ELSE 365 * 86400

\* The year loops, run ten iterations at a time
RECURSIVE CountYearsBlock(_, _, _)
CountYearsBlock(seconds, year, n) ==
    IF n = 0 \/ U32Less(seconds, ToU32(SecondsInYear(year)))
    THEN [seconds |-> seconds, year |-> year, more |-> n = 0]
    ELSE Only({ CountYearsBlock(rest, year + 1, n - 1) :
                rest \in {U32Sub(seconds, ToU32(SecondsInYear(year)))} })

RECURSIVE CountYears(_, _)
CountYears(seconds, year) ==
    Only({ IF b.more THEN CountYears(b.seconds, b.year)
           ELSE [seconds |-> b.seconds.hi * 65536 + b.seconds.lo, year |-> b.year] :
           b \in {CountYearsBlock(seconds, year, 10)} })

RECURSIVE CountMonths(_, _, _)
CountMonths(seconds, year, month) ==
    IF month > 12 \/ seconds < daysInMonth(year, month) * 86400
    THEN [seconds |-> seconds, month |-> month, year |-> year]
    ELSE CountMonths(seconds - daysInMonth(year, month) * 86400, year, month + 1)

\* A setUnixTime that takes the day of the month as the whole days left over
setUnixTimeDayZero(s, unixTime) ==
    Only({ LET rest == m.seconds % 86400
           IN setTime(s, ClockTime(m.year, m.month, (m.seconds \div 86400) % 256,
                                   rest \div 3600, (rest % 3600) \div 60,
                                   (rest % 3600) % 60)) :
           m \in { [CountMonths(y.seconds, y.year, 1) EXCEPT !.year = y.year] :
                    y \in {CountYears(unixTime, 1970)} } })

setUnixTime(s, unixTime) ==
    Only({ LET rest == m.seconds % 86400
           IN setTime(s, ClockTime(m.year, m.month, (1 + (m.seconds \div 86400)) % 256,
                                   rest \div 3600, (rest % 3600) \div 60,
                                   (rest % 3600) % 60)) :
           m \in { [CountMonths(y.seconds, y.year, 1) EXCEPT !.year = y.year] :
                    y \in {CountYears(unixTime, 1970)} } })

RECURSIVE YearSecondsBlock(_, _, _, _)
YearSecondsBlock(unixTime, y, year, n) ==
    IF n = 0 \/ y >= year
    THEN [unixTime |-> unixTime, y |-> y]
    ELSE Only({ YearSecondsBlock(sum, y + 1, year, n - 1) :
                sum \in {U32Add(unixTime, ToU32(SecondsInYear(y)))} })

RECURSIVE YearSeconds(_, _, _)
YearSeconds(unixTime, y, year) ==
    Only({ IF b.y >= year THEN b.unixTime ELSE YearSeconds(b.unixTime, b.y, year) :
           b \in {YearSecondsBlock(unixTime, y, year, 10)} })

RECURSIVE MonthSeconds(_, _, _)
MonthSeconds(m, year, month) ==
    IF m >= month THEN 0
    ELSE daysInMonth(year, m) * 86400 + MonthSeconds(m + 1, year, month)

getUnixTime(t) ==
    U32Add(YearSeconds(U32(0, 0), 1970, t.year),
           ToU32(MonthSeconds(1, t.year, t.month) + (t.day - 1) * 86400
                 + t.hour * 3600 + t.minute * 60 + t.second))

\* NTPServer::unixToNTP (lines 180-182)
unixToNTP(unixTime) == U32Add(unixTime, NTP_EPOCH_OFFSET)

\* NTPServer::begin (lines 18-35), the port taken to bind, and stop (lines 37-43)
ntpServerBegin(w) ==
    [w EXCEPT !.ntpRunning = TRUE, !.requestCount = 0]

ntpServerStop(w) ==
    IF w.ntpRunning THEN [w EXCEPT !.ntpRunning = FALSE, !.udpQueue = << >>] ELSE w

\* CaptivePortal::stop (lines 38-49)
portalStop(w) ==
    IF ~w.portal.running THEN w
    ELSE Logged([w EXCEPT !.portal.running = FALSE], "[PORTAL] Stopped")

\* ntpClientSync (lines 1902-1986)
ntpClientSync(w, reply) ==
    IF w.radio.link # "up"
    THEN Logged(w, "[NTP-CLIENT] Not connected to WiFi")
    ELSE IF ~reply.received THEN Logged(w, "[NTP-CLIENT] No response")
    ELSE IF reply.ntpSeconds = U32(0, 0)
    THEN Logged(w, "[NTP-CLIENT] Invalid response")
    ELSE LET t == setUnixTime(w, U32Sub(reply.ntpSeconds, NTP_EPOCH_OFFSET))
             u == setStratumIP([t EXCEPT !.lastTimeSource = "NTP",
                                         !.lastTimeSyncMillis = t.nowMillis,
                                         !.ntpServerIP = reply.ip], 2, reply.ip)
         IN Logged([u EXCEPT !.dstActive = computeUSDST(u.tm, u.utcOffset)],
                   "[NTP-CLIENT] Synced")

\* wifiScan (lines 793-838); found: what the scan returns
wifiScan(w, found) ==
    [w EXCEPT !.radio = [sta |-> TRUE, ap |-> FALSE, link |-> "none"],
              !.scanned = IF Len(found) > 0 THEN found ELSE << >>,
              !.wifiState = "IDLE"]

\* A wifiConnect that saves the credentials when the attempt starts
wifiConnectSaving(w, ssid, password) ==
    Logged([w EXCEPT !.wifiSSID = ssid,
                     !.wifiPassword = password,
                     !.wifiErrorMsg = "",
                     !.wifiPrefs = [has |-> TRUE, ssid |-> ssid, pass |-> password],
                     !.radio = [sta |-> TRUE, ap |-> FALSE, link |-> "joining"],
                     !.wifiElapsed = 0,
                     !.wifiState = "CONNECTING"],
           "[WIFI] Connecting")

\* wifiConnect (lines 845-860)
wifiConnect(w, ssid, password) ==
    Logged([w EXCEPT !.wifiSSID = ssid,
                     !.wifiPassword = password,
                     !.wifiErrorMsg = "",
                     !.radio = [sta |-> TRUE, ap |-> FALSE, link |-> "joining"],
                     !.wifiElapsed = 0,
                     !.wifiState = "CONNECTING"],
           "[WIFI] Connecting")

\* The connection check that never gives up
wifiCheckConnectionNoTimeout(w, reply, stale) ==
    IF w.radio.link = "up"
    THEN LET a == [w EXCEPT !.wifiState = "CONNECTED", !.wifiErrorMsg = "",
                            !.wifiPrefs = [has |-> TRUE, ssid |-> w.wifiSSID,
                                           pass |-> w.wifiPassword],
                            !.statusRunning = TRUE]
             b == IF a.ntpRunning THEN a ELSE ntpServerBegin(a)
         IN IF b.lastTimeSource # "WWVB" \/ stale THEN ntpClientSync(b, reply) ELSE b
    ELSE w

\* wifiCheckConnection (lines 862-901); stale: the last sync is more than two
\* hours old
wifiCheckConnection(w, reply, stale) ==
    IF w.radio.link = "up"
    THEN LET a == [w EXCEPT !.wifiState = "CONNECTED", !.wifiErrorMsg = "",
                            !.wifiPrefs = [has |-> TRUE, ssid |-> w.wifiSSID,
                                           pass |-> w.wifiPassword],
                            !.statusRunning = TRUE]
             b == IF a.ntpRunning THEN a ELSE ntpServerBegin(a)
         IN IF b.lastTimeSource # "WWVB" \/ stale THEN ntpClientSync(b, reply) ELSE b
    ELSE IF w.wifiElapsed > WIFI_CONNECT_TIMEOUT
    THEN Logged([w EXCEPT !.wifiState = "IDLE",
                          !.wifiErrorMsg = "Connection failed",
                          !.radio.link = "none"],
                "[WIFI] Connection timeout")
    ELSE w

\* A credentials callback that makes the connection itself
onCredentialsInline(w, ssid, password) ==
    LET a == portalStop(Logged(w, "[PORTAL] Got credentials"))
        b == [a EXCEPT !.radio.ap = FALSE, !.radio.sta = TRUE]
    IN wifiConnect(b, ssid, password)

\* The credentials callback wifiStartAP installs (lines 927-935)
onCredentials(w, ssid, password) ==
    Logged([w EXCEPT !.wifiSSID = ssid,
                     !.wifiPassword = password,
                     !.portalCredsReceived = TRUE],
           "[PORTAL] Got credentials")

\* wifiStartAP (lines 903-952); apOk: the access point came up
wifiStartAP(w, apOk) ==
    LET a == [w EXCEPT !.radio.link = "none"]
    IN IF ~apOk
       THEN [a EXCEPT !.wifiErrorMsg = "AP start failed", !.wifiState = "IDLE"]
       ELSE LET b == [a EXCEPT !.radio.ap = TRUE]
                c == IF b.ntpRunning THEN b ELSE ntpServerBegin(b)
            IN [c EXCEPT !.portal.running = TRUE, !.wifiState = "AP_MODE"]

\* wifiStopAP (lines 954-962)
wifiStopAP(w) ==
    LET a == portalStop([ntpServerStop(w) EXCEPT !.statusRunning = FALSE])
    IN [a EXCEPT !.radio.ap = FALSE, !.radio.sta = TRUE, !.wifiState = "OFF"]

\* wifiLoadCredentials (lines 964-978)
wifiLoadCredentials(w) ==
    LET a == IF w.wifiPrefs.has
             THEN [w EXCEPT !.wifiSSID = w.wifiPrefs.ssid,
                            !.wifiPassword = w.wifiPrefs.pass]
             ELSE w
    IN [w |-> a, ok |-> w.wifiPrefs.has /\ a.wifiSSID # ""]

\* wifiLoop (lines 980-1023)
wifiLoop(w, reply, stale) ==
    CASE w.wifiState = "CONNECTING" -> wifiCheckConnection(w, reply, stale)
      [] w.wifiState = "CONNECTED" ->
            IF w.radio.link # "up"
            THEN LET a == [ntpServerStop(w) EXCEPT !.statusRunning = FALSE]
                 IN IF a.wifiSSID # ""
                    THEN wifiConnect(a, a.wifiSSID, a.wifiPassword)
                    ELSE [a EXCEPT !.wifiState = "IDLE"]
            ELSE w
      [] w.wifiState = "AP_MODE" ->
            IF w.portalCredsReceived
            THEN LET a == Logged([w EXCEPT !.portalCredsReceived = FALSE],
                                 "[WIFI] Portal credentials received")
                     b == portalStop(a)
                     c == [b EXCEPT !.radio.ap = FALSE, !.radio.sta = TRUE]
                 IN wifiConnect(c, c.wifiSSID, c.wifiPassword)
            ELSE w
      [] OTHER -> w

\* CaptivePortal::handleConnect (lines 81-105), reached from handleClient
\* (lines 51-55) when a POST /connect is waiting
handleConnect(w, ssid, password) ==
    IF ssid = "" THEN w
    ELSE onCredentials(Logged([w EXCEPT !.portal.statusMessage = "Connecting"],
                              "[PORTAL] Credentials received"),
                       ssid, password)

\* Keys of the on-screen keyboard: Connect, backspace, and the taps that type
\* the password
Keys == {"Connect", "Backspace", "pw"}

\* processKeyboardInput (lines 1180-1218)
processKeyboardInput(w, key) ==
    CASE key = "none" -> w
      [] key = "Backspace" -> [w EXCEPT !.passwordBuffer = ""]
      [] key = "Connect" ->
            IF w.selectedNetwork >= 0 /\ w.selectedNetwork < Len(w.scanned)
            THEN wifiConnect([w EXCEPT !.kbMode = "HIDDEN"],
                             w.scanned[w.selectedNetwork + 1].ssid, w.passwordBuffer)
            ELSE w
      [] OTHER -> [w EXCEPT !.passwordBuffer = key]

\* Where a tap on the WiFi page lands: the bottom-row buttons or a list row
TapTargets == {"left", "center", "right", "row0", "row1"}

TapRow(target) == IF target = "row0" THEN 0 ELSE 1

\* handleWiFiTap (lines 1460-1530)
handleWiFiTap(w, target, key, found, apOk, reply) ==
    IF w.kbMode # "HIDDEN" THEN processKeyboardInput(w, key)
    ELSE IF w.wifiState = "CONNECTING"
    THEN IF target = "center"
         THEN Logged([w EXCEPT !.radio.link = "none", !.wifiState = "IDLE",
                               !.wifiErrorMsg = "Cancelled"],
                     "[WIFI] Connection cancelled")
         ELSE w
    ELSE IF w.wifiState = "AP_MODE"
    THEN IF target = "center" THEN wifiStopAP(w) ELSE w
    ELSE IF target = "left" THEN wifiScan(w, found)
    ELSE IF target = "center"
    THEN IF w.wifiState = "CONNECTED" THEN ntpClientSync(w, reply) ELSE w
    ELSE IF target = "right" THEN wifiStartAP(w, apOk)
    ELSE IF Len(w.scanned) > 0 /\ TapRow(target) < Len(w.scanned)
    THEN LET a == [w EXCEPT !.selectedNetwork = TapRow(target)]
             net == w.scanned[TapRow(target) + 1]
         IN IF net.secure
            THEN [a EXCEPT !.kbMode = "LOWER", !.passwordBuffer = ""]
            ELSE wifiConnect(a, net.ssid, "")
    ELSE w

\* The settings page's WiFi button, in handleTouch (lines 1623-1638)
toggleWifi(w, found) ==
    IF w.wifiState # "OFF"
    THEN LET a == portalStop([ntpServerStop(w) EXCEPT !.statusRunning = FALSE])
         IN [a EXCEPT !.radio = [sta |-> FALSE, ap |-> FALSE, link |-> "none"],
                      !.wifiState = "OFF",
                      !.scanned = << >>]
    ELSE wifiScan(w, found)

\* The first 48 bytes of a datagram, by the fields the server reads: byte 0
\* (leap indicator, version, mode), byte 2 (poll) and bytes 40..47 (transmit
\* timestamp). Versions 3, 4, 2 and 7 in turn.
Requests ==
    { [b0 |-> 27, b2 |-> 0, xmit |-> << 0, 0, 0, 0, 0, 0, 0, 0 >>],
      [b0 |-> 35, b2 |-> 6, xmit |-> << 235, 248, 52, 64, 128, 0, 0, 1 >>],
      [b0 |-> 19, b2 |-> 10, xmit |-> << 235, 248, 52, 64, 128, 0, 0, 1 >>],
      [b0 |-> 251, b2 |-> 255, xmit |-> << 255, 255, 255, 255, 255, 255, 255, 255 >>] }

NoRequest == [b0 |-> 0, b2 |-> 0, xmit |-> << 0, 0, 0, 0, 0, 0, 0, 0 >>]

NoResponse ==
    [b0 |-> 0, b1 |-> 0, b2 |-> 0, b3 |-> 0, rootDelay |-> 0, rootDispersion |-> 0,
     refId |-> << 0, 0, 0, 0 >>, refSeconds |-> U32(0, 0),
     origin |-> << 0, 0, 0, 0, 0, 0, 0, 0 >>, rxSeconds |-> U32(0, 0),
     txSeconds |-> U32(0, 0)]

\* A response that echoes the client's version number as it came
buildResponseEchoVersion(w, request) ==
    LET ntpNow == unixToNTP(getUnixTime(w.tm))
        clientVersion == (request.b0 \div 8) % 8
    IN [b0 |-> ((clientVersion * 8) % 256) + 4,
        b1 |-> w.ntpStratum,
        b2 |-> request.b2,
        b3 |-> 246,
        rootDelay |-> 0,
        rootDispersion |-> 1000,
        refId |-> w.ntpRefId,
        refSeconds |-> ntpNow,
        origin |-> request.xmit,
        rxSeconds |-> ntpNow,
        txSeconds |-> ntpNow]

\* NTPServer::buildResponse (lines 124-178), the sub-second fractions left out
buildResponse(w, request) ==
    LET ntpNow == unixToNTP(getUnixTime(w.tm))
        vn == (request.b0 \div 8) % 8
        clientVersion == IF vn < 3 THEN 3 ELSE vn
    IN [b0 |-> ((clientVersion * 8) % 256) + 4,
        b1 |-> w.ntpStratum,
        b2 |-> request.b2,
        b3 |-> 246,
        rootDelay |-> 0,
        rootDispersion |-> 1000,
        refId |-> w.ntpRefId,
        refSeconds |-> ntpNow,
        origin |-> request.xmit,
        rxSeconds |-> ntpNow,
        txSeconds |-> ntpNow]

\* NTPServer::handleClient (lines 45-114) counting the request on arrival
ntpHandleClientCountFirst(w, request) ==
    IF ~w.ntpRunning \/ w.udpQueue = << >> THEN w
    ELSE LET packetSize == Head(w.udpQueue)
             a == [w EXCEPT !.udpQueue = Tail(@), !.requestCount = @ + 1]
         IN IF packetSize < NTP_PACKET_SIZE THEN Logged(a, "[NTP] Undersized packet")
            ELSE IF ~a.timeSet THEN Logged(a, "[NTP] Ignoring request, time not set")
            ELSE IF U32Less(unixToNTP(getUnixTime(a.tm)), NTP_MIN_VALID)
            THEN Logged(a, "[NTP] Ignoring request, before 2020")
            ELSE Logged([a EXCEPT !.sentCount = @ + 1,
                                  !.ntpRequest = request,
                                  !.ntpResponse = buildResponse(a, request)],
                        "[NTP] Response")

\* NTPServer::handleClient (lines 45-114); a datagram is taken off the queue by
\* the read, or by the next parsePacket
ntpHandleClient(w, request) ==
    IF ~w.ntpRunning \/ w.udpQueue = << >> THEN w
    ELSE LET packetSize == Head(w.udpQueue)
             a == [w EXCEPT !.udpQueue = Tail(@)]
         IN IF packetSize < NTP_PACKET_SIZE THEN Logged(a, "[NTP] Undersized packet")
            ELSE IF ~a.timeSet THEN Logged(a, "[NTP] Ignoring request, time not set")
            ELSE IF U32Less(unixToNTP(getUnixTime(a.tm)), NTP_MIN_VALID)
            THEN Logged(a, "[NTP] Ignoring request, before 2020")
            ELSE Logged([a EXCEPT !.sentCount = @ + 1, !.requestCount = @ + 1,
                                  !.ntpRequest = request,
                                  !.ntpResponse = buildResponse(a, request)],
                        "[NTP] Response")

(***************************************************************************)
(* Initial state: the globals as constructed, before setup()               *)
(***************************************************************************)
\* No calendar function called yet
NoCall ==
    [fn |-> "none", time |-> ClockTime(0, 0, 0, 0, 0, 0), offset |-> 0, flag |-> FALSE,
     num |-> 0, unix |-> U32(0, 0)]

NoResult ==
    [fn |-> "none", time |-> ClockTime(0, 0, 0, 0, 0, 0), flag |-> FALSE, num |-> 0, unix |-> U32(0, 0)]

TimeInit ==
    /\ accumMillis = 0
    /\ setAt = ClockTime(2000, 1, 1, 0, 0, 0)
    /\ elapsedMs = 0
    /\ histMillis = 0
    /\ shifts = 0
    /\ blocked = 0
    /\ calcOut = NoResult

\* millis() while setup() runs, two seconds after power-up
BootMillis == [hi |-> 0, lo |-> 2000, wraps |-> 0]

DeviceInit ==
    /\ statusData = [batteryMv |-> 0, batteryPct |-> 0, batteryCharging |-> FALSE]
    /\ lowBatteryAlerted = FALSE
    /\ battLog = {}
    /\ initSince = 0
    /\ initAttempts = 0
    /\ busLog = << >>
    /\ currentPage = PAGE_CLOCK
    /\ currentBrightness = DISPLAY_BRIGHTNESS
    /\ touchActive = FALSE
    /\ touchStartX = 0
    /\ touchStartY = 0
    /\ touchLastX = 0
    /\ touchLastY = 0
    /\ touchHeld = 0
    /\ sliderDragging = FALSE
    /\ shutdownCountdownActive = FALSE
    /\ asleep = FALSE
    /\ nowMillis = BootMillis

\* The device at power-up, with one of the given settings records in flash
SyncInitOn(settings) ==
    /\ savedSettings \in settings
    /\ pc = "setup"
    /\ TimeInit
    /\ DeviceInit
    /\ es100InterruptFlag = FALSE
    /\ es100Receiving = FALSE
    /\ es100Available = FALSE
    /\ es100TrackingReady = FALSE
    /\ es100UsingTracking = FALSE
    /\ sinceAttempt = 0
    /\ daytimeFailures = 0
    /\ daytimeSkipActive = FALSE
    /\ es100InitRetries = 0
    /\ drv = [initialized |-> FALSE, receiving |-> FALSE]
    /\ enPin = FALSE
    /\ chip = ChipOff
    /\ irqEdge = FALSE
    /\ tm = ClockTime(2000, 1, 1, 0, 0, 0)
    /\ timeSet = FALSE
    /\ utcOffset = DEFAULT_UTC_OFFSET
    /\ dstActive = FALSE
    /\ lastTimeSource = "NONE"
    /\ lastTimeSyncMillis = [hi |-> 0, lo |-> 0, wraps |-> 0]
    /\ prefs \in PersistedRecords
    /\ hist = HistoryReset
    /\ ntpStratum = 1
    /\ ntpRefId = RefIdWWVB
    /\ drvCalls = {}

SyncInit == SyncInitOn({NoSettings})

NetInit ==
    /\ wifiState = "OFF"
    /\ wifiSSID = ""
    /\ wifiPassword = ""
    /\ wifiErrorMsg = ""
    /\ wifiElapsed = 0
    /\ portalCredsReceived = FALSE
    /\ portal = [running |-> FALSE, statusMessage |-> "Not connected"]
    /\ radio = [sta |-> FALSE, ap |-> FALSE, link |-> "none"]
    /\ ntpRunning = FALSE
    /\ requestCount = 0
    /\ statusRunning = FALSE
    /\ scanned = << >>
    /\ selectedNetwork = -1
    /\ kbMode = "HIDDEN"
    /\ passwordBuffer = ""
    /\ udpQueue = << >>
    /\ sentCount = 0
    /\ ntpRequest = NoRequest
    /\ ntpResponse = NoResponse
    /\ ntpServerIP = << 0, 0, 0, 0 >>
    /\ serialLog = {}

(***************************************************************************)
(* Touch gestures: handleTouch() and what it calls                         *)
(***************************************************************************)
\* Slider geometry (lines 130-134, 299-302) and the keyboard's (config.h
\* lines 175-184)
sliderX == 40
sliderWidth == DISPLAY_WIDTH - 80
sliderY == 100
sliderHeight == 30
sliderTouchPadding == 20
KB_INPUT_Y == 22
KB_INPUT_HEIGHT == 26
KB_Y_OFFSET == 56
KB_KEY_WIDTH == 48
KB_KEY_HEIGHT == 38
KB_KEY_GAP == 2
KB_ROW1_X == 18
KB_ROW2_X == 43
KB_ROW3_X == 8
KB_ROW4_X == 8
KB_SPECIAL_WIDTH == 62
KB_SPACE_WIDTH == 270

abs(n) == IF n < 0 THEN -n ELSE n

\* Arduino map() and constrain() on values at or above the input range's start
map(x, inMin, inMax, outMin, outMax) ==
    ((x - inMin) * (outMax - outMin)) \div (inMax - inMin) + outMin

constrain(x, lo, hi) == IF x < lo THEN lo ELSE IF x > hi THEN hi ELSE x

\* Load saved settings, in initDisplay (lines 290-295)
loadSettings(s) ==
    [s EXCEPT !.currentBrightness = IF s.savedSettings.hasBrightness
                                    THEN s.savedSettings.brightness
                                    ELSE DISPLAY_BRIGHTNESS,
              !.utcOffset = IF s.savedSettings.hasUtcOffset
                            THEN s.savedSettings.utcOffset ELSE -5]

\* A brightness change that stays in memory
putBrightnessNowhere(s) == s

\* preferences.putUChar("brightness", currentBrightness)
putBrightness(s) ==
    [s EXCEPT !.savedSettings.hasBrightness = TRUE,
              !.savedSettings.brightness = s.currentBrightness]

\* preferences.putChar("utcOffset", utcOffset)
putUtcOffset(s) ==
    [s EXCEPT !.savedSettings.hasUtcOffset = TRUE,
              !.savedSettings.utcOffset = s.utcOffset]

\* performShutdown (lines 738-767): brightness and time saved, then deep sleep
performShutdown(s) ==
    [saveTimeToPreferences(putBrightness(s)) EXCEPT !.asleep = TRUE]

\* A shutdown that goes to sleep without saving
performShutdownNoSave(s) ==
    [s EXCEPT !.asleep = TRUE]

\* handleSliderTouch (lines 774-788)
handleSliderTouch(s, x, y) ==
    IF /\ y >= sliderY - sliderTouchPadding
       /\ y <= sliderY + sliderHeight + sliderTouchPadding
       /\ x >= sliderX
       /\ x <= sliderX + sliderWidth
    THEN [s EXCEPT !.currentBrightness =
                       constrain(map(x, sliderX, sliderX + sliderWidth,
                                     BRIGHTNESS_MIN, BRIGHTNESS_MAX),
                                 BRIGHTNESS_MIN, BRIGHTNESS_MAX),
                   !.sliderDragging = TRUE]
    ELSE s

\* getKeyFromTap (lines 1131-1178), by the kind of key hit: a character,
\* Backspace, Connect, or nothing. The show/hide, shift and 123 keys change
\* how the password is shown and typed, not what happens next.
getKeyFromTap(x, y) ==
    LET row == (y - KB_Y_OFFSET) \div (KB_KEY_HEIGHT + KB_KEY_GAP)
        rowY == KB_Y_OFFSET + row * (KB_KEY_HEIGHT + KB_KEY_GAP)
        row3KeyX == KB_ROW3_X + KB_SPECIAL_WIDTH + KB_KEY_GAP
        bsX == row3KeyX + 7 * (KB_KEY_WIDTH + KB_KEY_GAP)
        spaceX == KB_ROW4_X + KB_SPECIAL_WIDTH + KB_KEY_GAP
        connectX == spaceX + KB_SPACE_WIDTH + KB_KEY_GAP
    IN IF y >= KB_INPUT_Y /\ y <= KB_INPUT_Y + KB_INPUT_HEIGHT /\ x >= DISPLAY_WIDTH - 40
       THEN "none"
       ELSE IF y < KB_Y_OFFSET \/ y > rowY + KB_KEY_HEIGHT THEN "none"
       ELSE IF row = 0
       THEN IF x >= KB_ROW1_X /\ (x - KB_ROW1_X) \div (KB_KEY_WIDTH + KB_KEY_GAP) < 10
            THEN "pw" ELSE "none"
       ELSE IF row = 1
       THEN IF x >= KB_ROW2_X /\ (x - KB_ROW2_X) \div (KB_KEY_WIDTH + KB_KEY_GAP) < 9
            THEN "pw" ELSE "none"
       ELSE IF row = 2
       THEN IF x < KB_ROW3_X + KB_SPECIAL_WIDTH THEN "none"
            ELSE IF x >= bsX THEN "Backspace"
            ELSE IF x >= row3KeyX THEN "pw" ELSE "none"
       ELSE IF row = 3
       THEN IF x < KB_ROW4_X + KB_SPECIAL_WIDTH THEN "none"
            ELSE IF x >= connectX THEN "Connect"
            ELSE IF x >= spaceX /\ x < spaceX + KB_SPACE_WIDTH THEN "pw" ELSE "none"
       ELSE "none"

\* The hit tests of handleWiFiTap (lines 1468-1513): which control of the
\* WiFi page a tap at (x, y) lands on
WifiTapTarget(w, x, y) ==
    IF w.wifiState \in {"CONNECTING", "AP_MODE"}
    THEN IF /\ y >= DISPLAY_HEIGHT - 35 /\ y <= DISPLAY_HEIGHT - 9
            /\ x >= DISPLAY_WIDTH \div 2 - 50 /\ x <= DISPLAY_WIDTH \div 2 + 50
         THEN "center" ELSE "none"
    ELSE IF y >= DISPLAY_HEIGHT - 30 /\ y <= DISPLAY_HEIGHT - 4 /\ x >= 40 /\ x <= 170
    THEN "left"
    ELSE IF /\ y >= DISPLAY_HEIGHT - 30 /\ y <= DISPLAY_HEIGHT - 4
            /\ w.wifiState = "CONNECTED"
            /\ x >= DISPLAY_WIDTH \div 2 - 55 /\ x <= DISPLAY_WIDTH \div 2 + 55
    THEN "center"
    ELSE IF /\ y >= DISPLAY_HEIGHT - 30 /\ y <= DISPLAY_HEIGHT - 4
            /\ x >= DISPLAY_WIDTH - 170 /\ x <= DISPLAY_WIDTH - 40
    THEN "right"
    ELSE IF y >= 52 /\ y < 52 + WIFI_MAX_VISIBLE * 24 /\ (y - 52) \div 24 = 0 THEN "row0"
    ELSE IF y >= 52 /\ y < 52 + WIFI_MAX_VISIBLE * 24 /\ (y - 52) \div 24 = 1 THEN "row1"
    ELSE "none"

\* What the network code leaves in the globals it shares with the rest
Absorb(s, w) ==
    [s EXCEPT !.tm = w.tm, !.timeSet = w.timeSet, !.dstActive = w.dstActive,
              !.lastTimeSource = w.lastTimeSource,
              !.lastTimeSyncMillis = w.lastTimeSyncMillis, !.ntpStratum = w.ntpStratum,
              !.ntpRefId = w.ntpRefId]

\* Touch end on the settings page, a short press that is not a swipe (lines
\* 1617-1674): the WiFi button, the UTC offset steppers, or the slider
settingsTap(s, w, found) ==
    LET btnY == DISPLAY_HEIGHT - 26 - 6
        utcPlusX == DISPLAY_WIDTH - 10 - 30
        valueX == utcPlusX - 45
        utcMinusX == valueX - 45 - 30 \div 2
    IN IF /\ s.touchStartX >= 10 /\ s.touchStartX <= 10 + 120
          /\ s.touchStartY >= btnY /\ s.touchStartY <= btnY + 26
       THEN [s |-> s, w |-> toggleWifi(w, found)]
       ELSE IF s.touchStartY >= btnY /\ s.touchStartY <= btnY + 26
       THEN IF /\ s.touchStartX >= utcMinusX /\ s.touchStartX <= utcMinusX + 30
               /\ s.utcOffset > -12
            THEN [s |-> putUtcOffset([s EXCEPT !.utcOffset = @ - 1]), w |-> w]
            ELSE IF /\ s.touchStartX >= utcPlusX /\ s.touchStartX <= utcPlusX + 30
                    /\ s.utcOffset < 14
            THEN [s |-> putUtcOffset([s EXCEPT !.utcOffset = @ + 1]), w |-> w]
            ELSE [s |-> s, w |-> w]
       ELSE LET a == handleSliderTouch(s, s.touchStartX, s.touchStartY)
            IN [s |-> IF a.sliderDragging
                      THEN putBrightness([a EXCEPT !.sliderDragging = FALSE])
                      ELSE a,
                w |-> w]

\* Touch end (lines 1576-1679). With at most two networks in the list
\* (fewer than WIFI_MAX_VISIBLE) the vertical scroll never moves it.
touchEnd(s0, w, holdDuration, found, apOk, reply) ==
    LET s == [s0 EXCEPT !.touchActive = FALSE, !.shutdownCountdownActive = FALSE,
                        !.touchHeld = 0]
        deltaX == s.touchLastX - s.touchStartX
        deltaY == s.touchLastY - s.touchStartY
    IN IF s.sliderDragging
       THEN [s |-> putBrightness([s EXCEPT !.sliderDragging = FALSE]), w |-> w]
       ELSE IF w.kbMode = "HIDDEN" /\ abs(deltaX) > SWIPE_THRESHOLD_PX /\ holdDuration < 1000
       THEN IF deltaX < -SWIPE_THRESHOLD_PX /\ s.currentPage < PAGE_WIFI
            THEN [s |-> [s EXCEPT !.currentPage = @ + 1], w |-> w]
            ELSE IF deltaX > SWIPE_THRESHOLD_PX /\ s.currentPage > PAGE_CLOCK
            THEN [s |-> [s EXCEPT !.currentPage = @ - 1],
                  w |-> IF s.currentPage - 1 # PAGE_WIFI
                        THEN [w EXCEPT !.kbMode = "HIDDEN"] ELSE w]
            ELSE [s |-> s, w |-> w]
       ELSE IF /\ s.currentPage = PAGE_WIFI /\ w.kbMode = "HIDDEN"
               /\ abs(deltaY) > 30 /\ abs(deltaX) < 30
       THEN [s |-> s, w |-> w]
       ELSE IF /\ s.currentPage = PAGE_SETTINGS /\ holdDuration < 500
               /\ abs(deltaX) < SWIPE_THRESHOLD_PX
       THEN settingsTap(s, w, found)
       ELSE IF /\ s.currentPage = PAGE_WIFI /\ holdDuration < 500
               /\ abs(deltaX) < SWIPE_THRESHOLD_PX
       THEN LET n == handleWiFiTap(w, WifiTapTarget(w, s.touchStartX, s.touchStartY),
                                   getKeyFromTap(s.touchStartX, s.touchStartY),
                                   found, apOk, reply)
            IN IF w.kbMode = "HIDDEN"
                  /\ WifiTapTarget(w, s.touchStartX, s.touchStartY) = "none"
               THEN [s |-> s, w |-> w]
               ELSE [s |-> Absorb(s, n), w |-> n]
       ELSE [s |-> s, w |-> w]

\* The condition of the long press (lines 1562, 1568): keyboard hidden
longPress(w) == w.kbMode = "HIDDEN"

\* handleTouch (lines 1535-1680); touched, x, y: what amoled.getPoint
\* returns; holdDuration: millis() - touchStartTime
handleTouch(s, w, touched, x, y, holdDuration, found, apOk, reply) ==
    IF touched /\ ~s.touchActive
    THEN [s |-> [s EXCEPT !.touchActive = TRUE, !.touchStartX = x, !.touchStartY = y,
                          !.touchLastX = x, !.touchLastY = y, !.touchHeld = 0,
                          !.sliderDragging = FALSE,
                          !.shutdownCountdownActive = FALSE],
          w |-> w]
    ELSE IF touched /\ s.touchActive
    THEN LET a == [s EXCEPT !.touchLastX = x, !.touchLastY = y,
                            !.touchHeld = holdDuration]
             dx == abs(x - s.touchStartX)
             dy == abs(y - s.touchStartY)
             fingerStill == dx < LONG_PRESS_MOVE_PX /\ dy < LONG_PRESS_MOVE_PX
         IN IF longPress(w) /\ fingerStill /\ holdDuration >= SHUTDOWN_HOLD_MS
            THEN [s |-> performShutdown(a), w |-> w]
            ELSE LET b == IF longPress(w) /\ fingerStill
                             /\ holdDuration >= SHUTDOWN_FEEDBACK_MS
                          THEN [a EXCEPT !.shutdownCountdownActive = TRUE] ELSE a
                 IN [s |-> IF b.currentPage = PAGE_SETTINGS /\ ~fingerStill
                           THEN handleSliderTouch(b, x, y) ELSE b,
                     w |-> w]
    ELSE IF ~touched /\ s.touchActive
    THEN touchEnd(s, w, holdDuration, found, apOk, reply)
    ELSE [s |-> s, w |-> w]

(***************************************************************************)
(* setup()                                                                 *)
(***************************************************************************)
\* What setup() finds: the receiver answering on its bus, the real-time-clock
\* chip's reading, the start command's write getting through
\* elapsed: millis() - saveMillis as loadTimeFromPreferences computes it, an
\* unsigned 32-bit difference of this boot's counter and the saved one
BootElapsed == {0, 61000, 3600000}

BootInputs ==
    [found : BOOLEAN, rtc : RtcReadings, writeOk : BOOLEAN, elapsed : BootElapsed]

BareBoard ==
    [found |-> FALSE, rtc |-> [present |-> FALSE, time |-> ClockTime(0, 0, 0, 0, 0, 0)],
     writeOk |-> FALSE, elapsed |-> 0]

BootDone == BareBoard

\* loadTimeFromDS3231 (lines 1819-1849); rtc: what the chip reports
loadTimeFromDS3231(s, rtc) ==
    IF ~rtc.present \/ rtc.time.year < 2025 \/ rtc.time.year > 2100
    THEN [s |-> s, ok |-> FALSE]
    ELSE [s |-> [setTime(s, rtc.time) EXCEPT
                    !.lastTimeSource = IF @ = "NONE" THEN "RTC" ELSE @,
                    !.lastTimeSyncMillis =
                        IF s.lastTimeSource = "NONE" THEN s.nowMillis ELSE @],
          ok |-> TRUE]

\* The replay loop of loadTimeFromPreferences (lines 1773-1775): n calls of
\* tick(), each advancing the clock by what millis() gained since the call
\* before it; loopMs is what millis() gains over the whole loop, here seen by
\* the last call. The calls are taken in blocks of `unit` calls, each block
\* in four blocks a quarter its size.
RECURSIVE ReplayCalls(_, _, _, _)
ReplayCalls(c, n, unit, lastMs) ==
    IF n = 0 THEN c
    ELSE IF unit = 1
    THEN Only({ ReplayCalls(d, n - 1, 1, lastMs) :
                   d \in {tick(c, IF n = 1 THEN lastMs ELSE 0)} })
    ELSE IF n >= unit
    THEN Only({ ReplayCalls(d, n - unit, unit, lastMs) :
                   d \in {ReplayCalls(c, unit, unit \div 4,
                                      IF n = unit THEN lastMs ELSE 0)} })
    ELSE ReplayCalls(c, n, unit \div 4, lastMs)

ReplayTicks(c, n, loopMs) == ReplayCalls(c, n, 1024, loopMs)

\* loadTimeFromPreferences (lines 1742-1784); elapsedMillis: millis() -
\* saveMillis (unsigned 32-bit). Yields the program state, the return value
\* and TimeManager's _accumMillis.
loadTimeFromPreferences(s, elapsedMillis, loopMs) ==
    IF ~s.prefs.hasTime THEN [s |-> s, ok |-> FALSE, accumMillis |-> 0]
    ELSE LET a == [setTime(s, s.prefs.time) EXCEPT !.dstActive = s.prefs.dst]
             c == [tm |-> a.tm, timeSet |-> a.timeSet, accumMillis |-> 0]
             r == IF elapsedMillis < 3600000
                  THEN ReplayTicks(c, elapsedMillis \div 1000, loopMs)
                  ELSE c
         IN [s |-> [a EXCEPT !.tm = r.tm], ok |-> TRUE,
             accumMillis |-> r.accumMillis]

\* A time load that tries the persisted record before the real-time clock
LoadTimePreferencesFirst(s, rtc, elapsed) ==
    LET d == loadTimeFromDS3231(s, rtc)
        p == loadTimeFromPreferences(s, elapsed, 0)
    IN IF p.ok THEN p.s
       ELSE IF d.ok THEN d.s
       ELSE setTime(s, ClockTime(2025, 1, 1, 0, 0, 0))

\* Time load, priority DS3231 > preferences > default (lines 2384-2402);
\* the replay calls fall within the millisecond of setTime
LoadTime(s, rtc, elapsed) ==
    LET d == loadTimeFromDS3231(s, rtc)
        p == loadTimeFromPreferences(s, elapsed, 0)
    IN IF d.ok THEN d.s
       ELSE IF p.ok THEN p.s
       ELSE setTime(s, ClockTime(2025, 1, 1, 0, 0, 0))

\* WiFi auto-connect with saved credentials (lines 2426-2429)
SetupNet(w) ==
    LET l == wifiLoadCredentials(w)
    IN IF l.ok THEN wifiConnect(l.w, l.w.wifiSSID, l.w.wifiPassword) ELSE l.w

SetupBody(s, found, rtc, writeOk, elapsed) ==
    LET a == initializeES100(loadSettings(s), found)
        b == LoadTime(a, rtc, elapsed)
        c == [b EXCEPT !.dstActive = IF b.timeSet THEN computeUSDST(b.tm, b.utcOffset)
                                     ELSE FALSE]
        d == [c EXCEPT !.hist = HistoryReset]
    IN startWWVBSync(d, writeOk)

Setup ==
    /\ pc = "setup"
    /\ \E n \in {SetupBody(Cur, bootEnv.found, bootEnv.rtc, bootEnv.writeOk, bootEnv.elapsed)} :
          Commit(n)
    /\ \E w \in {SetupNet(CurNet)} : CommitNetVars(w)
    /\ UNCHANGED timeVars
    /\ bootEnv' = BootDone
    /\ pc' = "irq"
    /\ UNCHANGED irqEdge

(***************************************************************************)
(* loop(), in three phases between which the interrupt may be taken: up to *)
(* the interrupt flag check, the scheduling, and the closing delay. A      *)
(* pending interrupt is taken before the main program goes on.             *)
(***************************************************************************)
Bounded(s) == s.hist.totalAttempts <= MaxAttempts

\* The interrupt flag check (lines 2474-2477)
FlagCheck(s, burstOk, writeOk) ==
    IF s.es100InterruptFlag
    THEN handleES100Interrupt(s, burstOk, writeOk)
    ELSE s

\* Bus and timer outcomes are drawn only where the pass consults them
RetryInputs ==
    IF es100Available \/ es100InitRetries >= MAX_ES100_INIT_RETRIES
    THEN {FALSE} ELSE BOOLEAN

HandlerInputs ==
    IF es100InterruptFlag /\ es100Receiving THEN BOOLEAN ELSE {TRUE}

LoopIrq ==
    /\ pc = "irq"
    /\ ~irqEdge
    /\ \E due \in RetryInputs, found \in RetryInputs,
          burstOk \in HandlerInputs, writeOk \in HandlerInputs :
          \E r \in {retryES100Initialization(Cur, due, found)} :
          \E n \in {FlagCheck(r, burstOk, writeOk)} :
             Bounded(n) /\ Commit(n)
    /\ pc' = "sched"
    /\ UNCHANGED irqEdge
    /\ UNCHANGED << bootEnv, netVars, timeVars >>

\* The once-per-second block's auto-DST check (lines 2520-2529); dstDue: the
\* block runs and 60 s have passed since the last check
AutoDST(s, dstDue) ==
    IF dstDue
    THEN [s EXCEPT !.dstActive = IF s.timeSet THEN computeUSDST(s.tm, s.utcOffset)
                                 ELSE FALSE]
    ELSE s

\* The scheduler with the skip decided by the flag alone, whatever the hour
SchedulePhaseStickySkip(s, writeOk) ==
    IF s.es100Receiving THEN s
    ELSE Only({ IF ~g.s.daytimeSkipActive /\ g.s.sinceAttempt >= g.interval
                THEN startWWVBSync(g.s, writeOk)
                ELSE g.s :
                g \in {getSyncInterval(s)} })

\* Periodic sync attempts (lines 2535-2546)
SchedulePhase(s, writeOk) ==
    IF s.es100Receiving THEN s
    ELSE Only({ LET skip == g.s.daytimeSkipActive /\ ~isNighttimeWindow(g.s)
                IN IF ~skip /\ g.s.sinceAttempt >= g.interval
                   THEN startWWVBSync(g.s, writeOk)
                   ELSE g.s :
                g \in {getSyncInterval(s)} })

\* The timeout check with the normal-mode timeout used in either mode
TimeoutPhaseOneTimeout(s, writeOk) ==
    IF s.es100Receiving /\ s.sinceAttempt > SYNC_TIMEOUT_NORMAL_MS
    THEN IF s.es100UsingTracking
         THEN StartOrFail([stopWWVBSync(s) EXCEPT !.es100TrackingReady = FALSE,
                                                  !.es100UsingTracking = FALSE],
                          ES100_CTRL0_NORMAL, writeOk)
         ELSE recordSyncFailure(stopWWVBSync(s))
    ELSE s

\* Timeout for reception attempts (lines 2548-2573)
TimeoutPhase(s, writeOk) ==
    LET rxTimeout == IF s.es100UsingTracking THEN SYNC_TIMEOUT_TRACKING_MS
                     ELSE SYNC_TIMEOUT_NORMAL_MS
    IN IF s.es100Receiving /\ s.sinceAttempt > rxTimeout
       THEN IF s.es100UsingTracking
            THEN StartOrFail([stopWWVBSync(s) EXCEPT !.es100TrackingReady = FALSE,
                                                     !.es100UsingTracking = FALSE],
                             ES100_CTRL0_NORMAL, writeOk)
            ELSE recordSyncFailure(stopWWVBSync(s))
       ELSE s

\* The middle of the pass: the per-second block, the scheduler, the timeout,
\* each working on the state the one before it left
LoopSched ==
    /\ pc = "sched"
    /\ ~irqEdge
    /\ \E dstDue \in BOOLEAN, writeOk \in BOOLEAN :
          \E a \in {AutoDST(Cur, dstDue)} :
          \E b \in {SchedulePhase(a, writeOk)} :
          \E n \in {TimeoutPhase(b, writeOk)} :
             Bounded(n) /\ Commit(n)
    /\ pc' = "delay"
    /\ UNCHANGED irqEdge
    /\ UNCHANGED << bootEnv, netVars, timeVars >>

\* delay(10) at the end of the pass (line 2575). advance: millis() has reached
\* the next point the comparisons distinguish; clockStep: with it the clock
\* (tick(), or the DS3231 reading syncFromDS3231 adopts) has reached the next
\* sample instant
LoopDelayWith(advance, clockStep) ==
    /\ pc = "delay"
    /\ ~irqEdge
    /\ sinceAttempt' = IF advance /\ sinceAttempt < LastTimePoint
                       THEN NextTimePoint(sinceAttempt) ELSE sinceAttempt
    /\ tm' = IF clockStep THEN NextClock(tm) ELSE tm
    /\ pc' = "irq"
    /\ drvCalls' = {}
    /\ UNCHANGED << es100InterruptFlag, es100Receiving, es100Available,
                    es100TrackingReady, es100UsingTracking, daytimeFailures,
                    daytimeSkipActive, es100InitRetries, deviceVars, drv, enPin, chip, irqEdge,
                    timeSet, utcOffset, dstActive, lastTimeSource, lastTimeSyncMillis, prefs, hist,
                    ntpStratum, ntpRefId >>
    /\ UNCHANGED << bootEnv, netVars, timeVars >>

LoopDelay ==
    \E advance \in BOOLEAN, clockStep \in BOOLEAN : LoopDelayWith(advance, clockStep)

(***************************************************************************)
(* Interrupt and environment                                               *)
(***************************************************************************)
\* An interrupt routine that reads (and so clears) the IRQ status itself
es100ISRReading(s) ==
    [readIRQStatus(s).s EXCEPT !.es100InterruptFlag = TRUE]

\* es100ISR (lines 201-203)
es100ISR(s) ==
    [s EXCEPT !.es100InterruptFlag = TRUE]

Interrupt ==
    /\ pc # "setup"
    /\ irqEdge
    /\ \E n \in {es100ISR(Cur)} : Commit(n)
    /\ irqEdge' = FALSE
    /\ UNCHANGED pc
    /\ UNCHANGED << bootEnv, netVars, timeVars >>

\* The receiver ends a reception cycle: cycle complete (it goes on receiving),
\* or reception complete with one of the sampled results; IRQ- falls. Cycles are
\* minutes apart, so the previous event has been read by then.
ChipEvent ==
    /\ enPin
    /\ chip.ctrl % 2 = 1
    /\ chip.irq = 0
    /\ \/ chip' = [chip EXCEPT !.irq = ES100_IRQ_CYCLE_COMPLETE]
       \/ \E r \in ChipResults :
             chip' = [ctrl |-> 0, irq |-> ES100_IRQ_RX_COMPLETE,
                      status0 |-> r.status0, time |-> r.time]
    /\ irqEdge' = TRUE
    /\ drvCalls' = {}
    /\ UNCHANGED << pc, es100InterruptFlag, es100Receiving, es100Available,
                    es100TrackingReady, es100UsingTracking, sinceAttempt,
                    daytimeFailures, daytimeSkipActive, es100InitRetries, deviceVars, drv, enPin,
                    tm, timeSet, utcOffset, dstActive, lastTimeSource, lastTimeSyncMillis, prefs, hist,
                    ntpStratum, ntpRefId >>
    /\ UNCHANGED << bootEnv, netVars, timeVars >>

(***************************************************************************)
(* The network side of loop(): handleTouch, wifiLoop and the servers'      *)
(* handleClient calls (lines 2456-2462) run one after the other in every   *)
(* pass; a call that finds nothing to do changes nothing, so the calls are *)
(* taken as steps of their own, in any order. The receiver schedule does   *)
(* not read or write the network state, and the network code reaches the   *)
(* clock only through ntpClientSync.                                       *)
(***************************************************************************)
\* wifiLoop()
LoopWifi ==
    /\ pc # "setup"
    /\ \E reply \in IF wifiState = "CONNECTING" /\ radio.link = "up"
                    THEN NtpReplies ELSE {NoReply},
          stale \in IF wifiState = "CONNECTING" /\ radio.link = "up"
                       /\ lastTimeSource = "WWVB"
                    THEN BOOLEAN ELSE {TRUE} :
          \E n \in {wifiLoop(CurNet, reply, stale)} : CommitNet(n)

\* captivePortal.handleClient() with a POST /connect waiting
LoopPortal ==
    /\ pc # "setup"
    /\ portal.running
    /\ \E ssid \in Ssids \cup {""}, password \in Passwords :
          \E n \in {handleConnect(CurNet, ssid, password)} : CommitNet(n)

\* handleTouch() with a tap on the WiFi page
\* Tap position, key and outcomes are drawn only where the handler consults them
TouchTargets == IF kbMode # "HIDDEN" THEN {"center"} ELSE TapTargets

TouchKeys == IF kbMode # "HIDDEN" THEN Keys ELSE {"pw"}

MainPage == kbMode = "HIDDEN" /\ wifiState \notin {"CONNECTING", "AP_MODE"}

Touch ==
    /\ pc # "setup"
    /\ \E target \in TouchTargets, key \in TouchKeys :
       \E found \in IF MainPage /\ target = "left" THEN ScanResults ELSE {<< >>},
          apOk \in IF MainPage /\ target = "right" THEN BOOLEAN ELSE {TRUE},
          reply \in IF MainPage /\ target = "center" /\ wifiState = "CONNECTED"
                    THEN NtpReplies ELSE {NoReply} :
          \E n \in {handleWiFiTap(CurNet, target, key, found, apOk, reply)} :
             CommitNet(n)

\* handleTouch() with a tap on the settings page's WiFi button
SettingsTap ==
    /\ pc # "setup"
    /\ \E found \in ScanResults :
          \E n \in {toggleWifi(CurNet, found)} : CommitNet(n)

\* The station joins the network it was told to join
LinkUp ==
    /\ radio.link = "joining"
    /\ \E n \in {[CurNet EXCEPT !.radio.link = "up"]} : CommitNet(n)

\* The network goes away
LinkDown ==
    /\ radio.link = "up"
    /\ \E n \in {[CurNet EXCEPT !.radio.link = "none"]} : CommitNet(n)

\* millis() moves on during a connection attempt
WifiTimePoints == <<0, 15000, 15010>>

WifiTime ==
    /\ pc # "setup"
    /\ wifiState = "CONNECTING"
    /\ \E i \in 1..(Len(WifiTimePoints) - 1) :
          /\ wifiElapsed = WifiTimePoints[i]
          /\ \E n \in {[CurNet EXCEPT !.wifiElapsed = WifiTimePoints[i + 1]]} :
                CommitNet(n)

(***************************************************************************)
(* The NTP server with its clock, as any owner may drive them: begin and   *)
(* stop, TimeManager::setTime, datagrams arriving, handleClient. The       *)
(* firmware is one such owner.                                             *)
(***************************************************************************)
DatagramSizes == {40, 48, 68}

\* A datagram arrives on the NTP port
DatagramArrives ==
    /\ ntpRunning
    /\ Len(udpQueue) < MaxQueue
    /\ \E size \in DatagramSizes :
          \E n \in {[CurNet EXCEPT !.udpQueue = Append(@, size)]} : CommitNet(n)

\* ntpServer.handleClient()
NtpPoll ==
    /\ requestCount < MaxRequests
    /\ sentCount < MaxRequests
    /\ \E request \in IF ntpRunning /\ udpQueue # << >>
                         /\ Head(udpQueue) >= NTP_PACKET_SIZE
                      THEN Requests ELSE {CHOOSE r \in Requests : TRUE} :
          \E n \in {ntpHandleClient(CurNet, request)} : CommitNet(n)

NtpBegin ==
    /\ ~ntpRunning
    /\ \E n \in {ntpServerBegin(CurNet)} : CommitNet(n)

NtpStop ==
    /\ ntpRunning
    /\ \E n \in {ntpServerStop(CurNet)} : CommitNet(n)

\* timeManager.setTime(...)
ClockSet ==
    \E t \in NtpClockSamples :
       \E n \in {setTime(CurNet, t)} : CommitNet(n)

(***************************************************************************)
(* The time sources and the NTP server together: the network side as it is, *)
(* and the receiver schedule taken in one step from a reception's start to  *)
(* handleES100Interrupt's run on its completed reception (Spec has the steps *)
(* in between).                                                            *)
(***************************************************************************)
\* Receptions that ended with a decoded frame
DecodedResults == { r \in ChipResults : r.status0 \in {1, 97} }

WwvbDecoded ==
    /\ pc # "setup"
    /\ es100Available
    /\ \E r \in DecodedResults :
          \E n \in {handleES100Interrupt(
                       [Cur EXCEPT !.es100InterruptFlag = TRUE,
                                   !.es100Receiving = TRUE,
                                   !.es100UsingTracking = FALSE,
                                   !.enPin = TRUE,
                                   !.drv.receiving = TRUE,
                                   !.chip = [ctrl |-> 0, irq |-> ES100_IRQ_RX_COMPLETE,
                                             status0 |-> r.status0, time |-> r.time]],
                       TRUE, TRUE)} :
             n.hist.totalSuccess <= MaxDecodes /\ Commit(n)
    /\ UNCHANGED << pc, irqEdge, bootEnv, netVars, timeVars >>

\* The device as built, with no WiFi credentials in flash
Init ==
    /\ SyncInit
    /\ calcIn = NoCall
    /\ bootEnv \in BootInputs
    /\ NetInit
    /\ wifiPrefs = [has |-> FALSE, ssid |-> "", pass |-> ""]

\* The board without receiver and real-time clock and with nothing persisted but,
\* possibly, WiFi credentials
WifiInit ==
    /\ SyncInit
    /\ calcIn = NoCall
    /\ prefs = [hasTime |-> FALSE, time |-> ClockTime(0, 0, 0, 0, 0, 0), dst |-> FALSE]
    /\ bootEnv = BareBoard
    /\ NetInit
    /\ wifiPrefs \in SavedCredentials

Next ==
    \/ Setup
    \/ LoopIrq
    \/ LoopSched
    \/ LoopDelay
    \/ Interrupt
    \/ ChipEvent

Spec == Init /\ [][Next]_vars

\* The loop keeps running, millis() keeps growing and the clock keeps moving on
\* through day and night
LiveSpec ==
    /\ Init /\ [][Next]_vars
    /\ WF_vars(Setup)
    /\ WF_vars(LoopIrq)
    /\ WF_vars(Interrupt)
    /\ WF_vars(LoopSched)
    /\ SF_vars(\E clockStep \in BOOLEAN : LoopDelayWith(TRUE, clockStep))
    /\ SF_vars(\E advance \in BOOLEAN : LoopDelayWith(advance, TRUE))

WifiNext ==
    \/ Setup
    \/ LoopWifi
    \/ LoopPortal
    \/ Touch
    \/ SettingsTap
    \/ LinkUp
    \/ LinkDown
    \/ WifiTime

WifiSpec == WifiInit /\ [][WifiNext]_vars

\* The loop keeps running and millis() keeps growing
LiveWifiSpec ==
    /\ WifiInit /\ [][WifiNext]_vars
    /\ WF_vars(Setup)
    /\ WF_vars(LoopWifi)
    /\ WF_vars(WifiTime)

(***************************************************************************)
(* The per-second block of loop() (lines 2480-2533) on the bare board, from  *)
(* one run to the next.                                                    *)
(***************************************************************************)
\* millis() - lastDisplayUpdate when the block runs: one second when the passes
\* in between took their 10 ms each, six when one of them sat in wifiLoop's
\* delay(5000) (line 994)
BlockGaps == {DISPLAY_UPDATE_MS, DISPLAY_UPDATE_MS + RECONNECT_DELAY_MS}

\* The once-per-second block (lines 2479-2533) on a board without the clock
\* chip: tick, status and battery, auto-DST, hourlyTick. Yields the state and
\* the clock's millisecond remainder.
perSecondBlock(s, accum, gap, reading, warnDue, dstDue) ==
    LET c == tick([tm |-> s.tm, timeSet |-> s.timeSet, accumMillis |-> accum], gap)
        b == lowBatteryCheck([s EXCEPT !.tm = c.tm], reading, warnDue)
        d == AutoDST(b, dstDue)
    IN [s |-> [d EXCEPT !.hist = hourlyTick(@)], accumMillis |-> c.accumMillis]

\* The battery while the hours are counted: charged, on the charger or off it
ChargedReadings == { [mv |-> 4100, charging |-> FALSE] }

SecondBlock ==
    /\ pc # "setup"
    /\ shifts < MaxShifts
    /\ \E gap \in BlockGaps, dstDue \in BOOLEAN, reading \in ChargedReadings :
          /\ gap > DISPLAY_UPDATE_MS => blocked < MaxBlocked
          /\ blocked' = IF gap > DISPLAY_UPDATE_MS THEN blocked + 1 ELSE blocked
          /\ histMillis' = histMillis + gap
          /\ \E r \in {perSecondBlock(Cur, accumMillis, gap, reading, FALSE, dstDue)} :
                /\ Commit(r.s)
                /\ accumMillis' = r.accumMillis
                /\ shifts' = IF r.s.hist.secondsInCurrentHour = 0 THEN shifts + 1 ELSE shifts
    /\ UNCHANGED << pc, irqEdge, bootEnv, netVars, setAt, elapsedMs, calcIn, calcOut >>

HourNext ==
    \/ Setup
    \/ SecondBlock

HourSpec == WifiInit /\ [][HourNext]_vars

(***************************************************************************)
(* The once-per-second block as the battery drains and charges: the block  *)
(* runs each second with whatever the power chip reports.                  *)
(***************************************************************************)
\* 0 mV (no battery), 0 %, 10 %, 11 %, 15 %, 16 % and 90 %, on the charger or off
BatteryReadings ==
    { [mv |-> mv, charging |-> ch] :
      mv \in {0, 3300, 3600, 3610, 3650, 3660, 4100}, ch \in BOOLEAN }

BatteryBlock ==
    /\ pc # "setup"
    /\ histMillis < MaxBatteryMs
    /\ \E reading \in BatteryReadings, warnDue \in BOOLEAN :
          \E r \in {perSecondBlock(Cur, accumMillis, DISPLAY_UPDATE_MS, reading, warnDue,
                                    FALSE)} :
             /\ Commit(r.s)
             /\ accumMillis' = r.accumMillis
    /\ histMillis' = histMillis + DISPLAY_UPDATE_MS
    /\ UNCHANGED << pc, irqEdge, bootEnv, netVars, setAt, elapsedMs, shifts, blocked,
                    calcIn, calcOut >>

BatteryNext ==
    \/ Setup
    \/ BatteryBlock

BatterySpec == WifiInit /\ [][BatteryNext]_vars

(***************************************************************************)
(* The receiver's initialization retries: the loop's passes as time goes   *)
(* by after setup, on a board whose receiver may or may not answer.        *)
(***************************************************************************)
\* Readings of millis() - lastES100InitAttempt that the timer tells apart:
\* a loop pass before each interval, the interval, a pass after it
RetryPoints ==
    {0} \cup UNION { {ES100_RETRY_INTERVALS[i] - LOOP_DELAY_MS, ES100_RETRY_INTERVALS[i],
                      ES100_RETRY_INTERVALS[i] + LOOP_DELAY_MS} :
                     i \in 1..Len(ES100_RETRY_INTERVALS) }

\* One pass of loop() up to the interrupt flag check (lines 2446-2477), at
\* the reading now; found: whether the receiver answers with its device id
RetryPass ==
    /\ pc # "setup"
    /\ \E now \in { y \in RetryPoints : y >= initSince }, found \in BOOLEAN :
          LET tried == ~(es100Available \/ es100InitRetries >= MAX_ES100_INIT_RETRIES)
                       /\ retryDue(Cur, now)
          IN /\ \E r \in {retryES100Initialization(Cur, retryDue(Cur, now), found)} :
                \E n \in {FlagCheck(r, TRUE, TRUE)} :
                   Commit([n EXCEPT !.initSince = IF tried THEN 0 ELSE now,
                                    !.initAttempts = IF tried THEN @ + 1 ELSE @])
             /\ calcIn' = [NoCall EXCEPT !.fn = "retryES100Initialization",
                                         !.num = now, !.flag = found]
    /\ UNCHANGED << pc, irqEdge, bootEnv, netVars, accumMillis, setAt, elapsedMs,
                    histMillis, shifts, blocked, calcOut >>

RetryInit ==
    /\ SyncInit
    /\ calcIn = NoCall
    /\ prefs = [hasTime |-> FALSE, time |-> ClockTime(0, 0, 0, 0, 0, 0), dst |-> FALSE]
    /\ bootEnv \in { b \in BootInputs : ~b.rtc.present }
    /\ NetInit
    /\ wifiPrefs = [has |-> FALSE, ssid |-> "", pass |-> ""]

RetryNext ==
    \/ Setup
    \/ RetryPass

RetrySpec == RetryInit /\ [][RetryNext]_vars

(***************************************************************************)
(* The receiver driver's register reads, on a board whose receiver has     *)
(* been started by setup and goes through its reception.                   *)
(***************************************************************************)
ReadableRegisters ==
    { ES100_REG_CONTROL0, ES100_REG_IRQ_STATUS, ES100_REG_STATUS0, ES100_REG_DEVICE_ID }

\* es100.readRegister(reg)
ReadRegisterCall ==
    /\ pc # "setup"
    /\ \E reg \in ReadableRegisters, ack \in BOOLEAN, got \in BOOLEAN :
          /\ ~ack => got
          /\ \E r \in {readRegister(Cur, reg, ack, got)} :
                /\ Commit([r.s EXCEPT !.drvCalls = {}])
                /\ calcOut' = [NoResult EXCEPT !.fn = "readRegister", !.num = r.val]
          /\ calcIn' = [NoCall EXCEPT !.fn = "readRegister", !.num = reg, !.flag = ack]
    /\ UNCHANGED << pc, irqEdge, bootEnv, netVars, accumMillis, setAt, elapsedMs,
                    histMillis, shifts, blocked >>

\* es100.readRegisters(ES100_REG_YEAR, timeData, 6)
ReadRegistersCall ==
    /\ pc # "setup"
    /\ \E ack \in BOOLEAN, bytesRead \in {0, 6} :
          /\ ~ack => bytesRead = 0
          /\ \E r \in {readRegisters(Cur, ES100_REG_YEAR, 6, ack, bytesRead)} :
                /\ Commit([r.s EXCEPT !.drvCalls = {}])
                /\ calcOut' = [NoResult EXCEPT !.fn = "readRegisters", !.num = r.n]
          /\ calcIn' = [NoCall EXCEPT !.fn = "readRegisters", !.num = ES100_REG_YEAR,
                                      !.flag = ack]
    /\ UNCHANGED << pc, irqEdge, bootEnv, netVars, accumMillis, setAt, elapsedMs,
                    histMillis, shifts, blocked >>

DriverNext ==
    \/ Setup
    \/ ChipEvent
    \/ ReadRegisterCall
    \/ ReadRegistersCall

DriverSpec == RetryInit /\ [][DriverNext]_vars

(***************************************************************************)
(* The calendar by the civil-calendar day count (days since 1970-01-01,    *)
(* years counted from March), to compare the clock's arithmetic against    *)
(***************************************************************************)
RefDays(y, m, d) ==
    LET yy == IF m <= 2 THEN y - 1 ELSE y
        era == yy \div 400
        yoe == yy - (era * 400)
        mp == IF m > 2 THEN m - 3 ELSE m + 9
        doy == (((153 * mp) + 2) \div 5) + (d - 1)
        doe == (yoe * 365) + (yoe \div 4) - (yoe \div 100) + doy
    IN (era * 146097) + doe - 719468

RefCivil(days) ==
    LET z == days + 719468
        era == z \div 146097
        doe == z - (era * 146097)
        yoe == (doe - (doe \div 1460) + (doe \div 36524) - (doe \div 146096)) \div 365
        doy == doe - ((365 * yoe) + (yoe \div 4) - (yoe \div 100))
        mp == ((5 * doy) + 2) \div 153
        m == IF mp < 10 THEN mp + 3 ELSE mp - 9
    IN [year |-> yoe + (era * 400) + (IF m <= 2 THEN 1 ELSE 0),
        month |-> m,
        day |-> doy - (((153 * mp) + 2) \div 5) + 1]

\* 0 = Sunday; 1970-01-01 was a Thursday
RefWeekday(y, m, d) == (RefDays(y, m, d) + 4) % 7

RefValid(t) ==
    /\ t.month \in 1..12
    /\ t.day >= 1
    /\ RefCivil(RefDays(t.year, t.month, 1) + (t.day - 1)).month = t.month
    /\ t.hour \in 0..23
    /\ t.minute \in 0..59
    /\ t.second \in 0..59

\* The date-time a number of seconds (below a day's worth of days) and hours
\* after t
RefAfter(t, hours, seconds) ==
    LET s == (t.hour * 3600) + (t.minute * 60) + t.second + (hours * 3600) + seconds
        c == RefCivil(RefDays(t.year, t.month, t.day) + (s \div 86400))
    IN ClockTime(c.year, c.month, c.day, (s % 86400) \div 3600,
                 (s % 3600) \div 60, s % 60)

\* Seconds since 1970-01-01 00:00:00 as a 32-bit value
RefUnix(days, seconds) ==
    U32(days + (((days * 20864) + seconds) \div 65536),
        ((days * 20864) + seconds) % 65536)

(***************************************************************************)
(* The calendar functions, each called once on arguments drawn at the      *)
(* start: TimeManager's setUnixTime and getUnixTime, getLocalTime and      *)
(* calculateDayOfWeek, and computeUSDST.                                   *)
(***************************************************************************)
LeapDayYears == { y \in 1970..2099 : RefCivil(RefDays(y, 3, 1) - 1).day = 29 }

\* Unix times from 1970 to 2099: the first and last second of the days around
\* the ends of January, February and the year, in every year
UnixSamples ==
    { [NoCall EXCEPT !.fn = "setUnixTime",
                     !.unix = RefUnix(RefDays(y, 1, 1) + doy, s)] :
      y \in 1970..2099, doy \in {0, 30, 31, 58, 59, 60, 364}, s \in {0, 86399} }
    \cup { [NoCall EXCEPT !.fn = "setUnixTime",
                          !.unix = RefUnix(RefDays(y, 1, 1) + 365, s)] :
           y \in LeapDayYears, s \in {0, 43200, 86399} }

\* UTC date-times around the ends of days, months, leap days and years, with
\* every offset the settings screen allows and DST on or off
UtcSamples ==
    { ClockTime(2025, 1, 1, 2, 0, 0), ClockTime(2025, 1, 1, 0, 0, 0),
      ClockTime(2025, 12, 31, 23, 59, 59), ClockTime(2025, 12, 31, 12, 0, 0),
      ClockTime(2024, 3, 1, 1, 0, 0), ClockTime(2025, 3, 1, 1, 0, 0),
      ClockTime(2024, 2, 28, 23, 0, 0), ClockTime(2025, 2, 28, 22, 0, 0),
      ClockTime(2024, 2, 29, 15, 30, 10), ClockTime(2025, 6, 30, 20, 15, 0),
      ClockTime(2025, 7, 1, 3, 45, 59), ClockTime(2100, 3, 1, 0, 30, 0),
      ClockTime(2000, 3, 1, 11, 0, 0), ClockTime(2025, 6, 15, 12, 0, 0) }

UtcOffsets == (0 - 12)..14

LocalTimeSamples ==
    { [NoCall EXCEPT !.fn = "getLocalTime", !.time = t, !.offset = o, !.flag = d] :
      t \in UtcSamples, o \in UtcOffsets, d \in BOOLEAN }

\* The Sundays of the US rule by the day count
RefSecondSundayMarch(y) == CHOOSE d \in 8..14 : RefWeekday(y, 3, d) = 0
RefFirstSundayNovember(y) == CHOOSE d \in 1..7 : RefWeekday(y, 11, d) = 0

RefUSDST(local) ==
    CASE local.month \in {12, 1, 2} -> FALSE
      [] local.month \in 4..10 -> TRUE
      [] local.month = 3 ->
            LET sunday == RefSecondSundayMarch(local.year)
            IN (local.day * 24) + local.hour >= (sunday * 24) + 2
      [] local.month = 11 ->
            LET sunday == RefFirstSundayNovember(local.year)
            IN (local.day * 24) + local.hour < (sunday * 24) + 2

\* Local standard times on both sides of every edge of the rule, in years
\* whose March and November begin on different weekdays
DstYears == 2024..2031

DstLocalTimes(y) ==
    LET ss == RefSecondSundayMarch(y)
        fs == RefFirstSundayNovember(y)
    IN { ClockTime(y, 1, 1, 0, 0, 0), ClockTime(y, 2, 28, 23, 59, 59),
         ClockTime(y, 3, 1, 0, 0, 0), ClockTime(y, 3, ss - 7, 2, 0, 0),
         ClockTime(y, 3, ss - 1, 23, 59, 59),
         ClockTime(y, 3, ss, 1, 59, 59), ClockTime(y, 3, ss, 2, 0, 0),
         ClockTime(y, 3, ss + 1, 0, 0, 0), ClockTime(y, 3, 31, 23, 59, 59),
         ClockTime(y, 4, 1, 0, 0, 0), ClockTime(y, 7, 4, 12, 0, 0),
         ClockTime(y, 10, 31, 23, 59, 59), ClockTime(y, 11, 1, 0, 0, 0),
         ClockTime(y, 11, fs, 1, 59, 59), ClockTime(y, 11, fs, 2, 0, 0),
         ClockTime(y, 11, fs + 1, 1, 0, 0), ClockTime(y, 11, fs + 7, 1, 0, 0),
         ClockTime(y, 11, 30, 23, 59, 59),
         ClockTime(y, 12, 1, 0, 0, 0), ClockTime(y, 12, 31, 23, 59, 59) }

DstOffsets == { 0 - 10, 0 - 8, DEFAULT_UTC_OFFSET, 0, 5 }

\* The UTC instants at which the local standard clock of offset o shows them
DstSamples ==
    { [NoCall EXCEPT !.fn = "computeUSDST", !.time = RefAfter(l, 0 - o, 0), !.offset = o] :
      l \in UNION { DstLocalTimes(y) : y \in DstYears }, o \in DstOffsets }

\* Every date of years on both sides of a century, of a leap century and of a
\* leap day
WeekdayYears == { 1970, 1999, 2000, 2001, 2024, 2025, 2099, 2100 }

WeekdaySamples ==
    { [NoCall EXCEPT !.fn = "calculateDayOfWeek",
                     !.time = ClockTime(c.year, c.month, c.day, 0, 0, 0)] :
      c \in UNION { { RefCivil(n) : n \in RefDays(y, 1, 1)..RefDays(y, 12, 31) } :
                    y \in WeekdayYears } }

\* Battery voltages in millivolts (uint16_t): every value from below the
\* table to above it, and the ends of the type
MilliVolts == {0, 1, 65535} \cup (2990..4510)

BatterySamples ==
    { [NoCall EXCEPT !.fn = "lipoBatteryPercent", !.num = mv] : mv \in MilliVolts }

\* The saved record and the elapsed time loadTimeFromPreferences finds for
\* it: millis() - saveMillis, and the milliseconds the replay loop itself takes
ElapsedSamples == {0, 999, 1000, 61000, 3599999, 3600000, 2147483647}

ReplayLoopMs == {0, 4}

SavedSamples ==
    { [NoCall EXCEPT !.fn = "loadTimeFromPreferences", !.time = x.saved.time,
                     !.flag = x.saved.dst, !.num = x.elapsed, !.offset = x.loopMs] :
        x \in [saved : { r \in PersistedRecords : r.hasTime },
               elapsed : ElapsedSamples, loopMs : ReplayLoopMs] }

CalcInputs ==
    UnixSamples \cup LocalTimeSamples \cup DstSamples \cup WeekdaySamples
    \cup BatterySamples \cup SavedSamples

CalcInit ==
    /\ SyncInit
    /\ calcIn \in CalcInputs
    /\ prefs = IF calcIn.fn = "loadTimeFromPreferences"
               THEN [hasTime |-> TRUE, time |-> calcIn.time, dst |-> calcIn.flag]
               ELSE [hasTime |-> FALSE, time |-> ClockTime(0, 0, 0, 0, 0, 0),
                     dst |-> FALSE]
    /\ bootEnv = BareBoard
    /\ NetInit
    /\ wifiPrefs = [has |-> FALSE, ssid |-> "", pass |-> ""]

\* timeManager.setUnixTime(t) followed by timeManager.getUnixTime()
SetUnixTimeCall ==
    /\ calcIn.fn = "setUnixTime"
    /\ calcOut.fn = "none"
    /\ \E n \in {setUnixTime(Cur, calcIn.unix)} :
          /\ Commit(n)
          /\ calcOut' = [NoResult EXCEPT !.fn = "setUnixTime", !.time = n.tm,
                                         !.unix = getUnixTime(n.tm)]
    /\ setAt' = tm'
    /\ UNCHANGED << pc, irqEdge, bootEnv, netVars, accumMillis, elapsedMs, histMillis,
                    shifts, blocked, calcIn >>

\* timeManager.getLocalTime(offset, dst) on the clock set to a UTC time
GetLocalTimeCall ==
    /\ calcIn.fn = "getLocalTime"
    /\ calcOut.fn = "none"
    /\ \E n \in {setTime(Cur, calcIn.time)} :
          /\ Commit(n)
          /\ calcOut' = [NoResult EXCEPT
                            !.fn = "getLocalTime",
                            !.time = getLocalTime(n.tm, calcIn.offset, calcIn.flag)]
    /\ setAt' = tm'
    /\ UNCHANGED << pc, irqEdge, bootEnv, netVars, accumMillis, elapsedMs, histMillis,
                    shifts, blocked, calcIn >>

\* computeUSDST() with the clock set to a UTC time and the zone to an offset
ComputeUSDSTCall ==
    /\ calcIn.fn = "computeUSDST"
    /\ calcOut.fn = "none"
    /\ \E n \in {[setTime(Cur, calcIn.time) EXCEPT !.utcOffset = calcIn.offset]} :
          /\ Commit(n)
          /\ calcOut' = [NoResult EXCEPT
                            !.fn = "computeUSDST",
                            !.time = getLocalTime(n.tm, n.utcOffset, FALSE),
                            !.flag = IF n.timeSet THEN computeUSDST(n.tm, n.utcOffset)
                                     ELSE FALSE]
    /\ setAt' = tm'
    /\ UNCHANGED << pc, irqEdge, bootEnv, netVars, accumMillis, elapsedMs, histMillis,
                    shifts, blocked, calcIn >>

\* TimeManager::calculateDayOfWeek(year, month, day), a static function
CalculateDayOfWeekCall ==
    /\ calcIn.fn = "calculateDayOfWeek"
    /\ calcOut.fn = "none"
    /\ calcOut' = [NoResult EXCEPT
                      !.fn = "calculateDayOfWeek",
                      !.num = calculateDayOfWeek(calcIn.time.year, calcIn.time.month,
                                                 calcIn.time.day)]
    /\ UNCHANGED << syncVars, netVars, accumMillis, setAt, elapsedMs, histMillis,
                    shifts, blocked, calcIn >>

\* lipoBatteryPercent(mv)
LipoBatteryPercentCall ==
    /\ calcIn.fn = "lipoBatteryPercent"
    /\ calcOut.fn = "none"
    /\ calcOut' = [NoResult EXCEPT !.fn = "lipoBatteryPercent",
                                   !.num = lipoBatteryPercent(calcIn.num)]
    /\ UNCHANGED << syncVars, netVars, accumMillis, setAt, elapsedMs, histMillis,
                    shifts, blocked, calcIn >>

\* loadTimeFromPreferences() on a board holding a saved record
LoadTimeFromPreferencesCall ==
    /\ calcIn.fn = "loadTimeFromPreferences"
    /\ calcOut.fn = "none"
    /\ \E r \in {loadTimeFromPreferences(Cur, calcIn.num, calcIn.offset)} :
          /\ Commit(r.s)
          /\ accumMillis' = r.accumMillis
          /\ calcOut' = [NoResult EXCEPT !.fn = "loadTimeFromPreferences",
                                         !.time = r.s.tm, !.flag = r.ok]
    /\ UNCHANGED << pc, irqEdge, bootEnv, netVars, setAt, elapsedMs, histMillis,
                    shifts, blocked, calcIn >>

CalcNext ==
    \/ LoadTimeFromPreferencesCall
    \/ LipoBatteryPercentCall
    \/ SetUnixTimeCall
    \/ GetLocalTimeCall
    \/ ComputeUSDSTCall
    \/ CalculateDayOfWeekCall

CalcSpec == CalcInit /\ [][CalcNext]_vars

(***************************************************************************)
(* The touch screen: setup, then handleTouch() at each pass of loop() with  *)
(* what the panel reports. The finger lands on the controls of the pages   *)
(* and is held, moved and lifted at hold times on both sides of the        *)
(* gesture thresholds.                                                     *)
(***************************************************************************)
\* The slider's ends, the bottom-left button (WiFi toggle, Scan) and a point
\* 29 px from it, the UTC offset's plus button, the first row of the network
\* list (a character key when the keyboard is up)
TouchPoints ==
    { [x |-> 40, y |-> 115], [x |-> 496, y |-> 115], [x |-> 100, y |-> 220],
      [x |-> 129, y |-> 220], [x |-> 510, y |-> 220], [x |-> 268, y |-> 60] }

\* millis() - touchStartTime at the passes of a touch
HoldPoints == << 0, 400, 800, 2000, 9600, 10000 >>

\* Settings in flash at boot: none, or saved by an earlier run
SavedSettings ==
    { NoSettings,
      [hasBrightness |-> TRUE, brightness |-> 10, hasUtcOffset |-> TRUE, utcOffset |-> 13] }

\* The offsets the stepper is followed through
MaxOffsetSteps == 1

OffsetsFollowed ==
    { o + k : o \in {DEFAULT_UTC_OFFSET, 13}, k \in 0..MaxOffsetSteps }

TouchSample ==
    /\ pc # "setup"
    /\ ~asleep
    /\ \E touched \in BOOLEAN, p \in TouchPoints, i \in 1..Len(HoldPoints) :
          /\ touched \/ touchActive
          /\ IF touchActive THEN HoldPoints[i] > touchHeld ELSE i = 1
          /\ ~touched => p = [x |-> touchLastX, y |-> touchLastY]
          /\ \E found \in IF touched THEN {<< >>} ELSE ScanResults,
                apOk \in IF touched THEN {TRUE} ELSE BOOLEAN :
                \E n \in {handleTouch(Cur, CurNet, touched, p.x, p.y, HoldPoints[i],
                                      found, apOk, NoReply)} :
                   /\ n.s.utcOffset \in OffsetsFollowed
                   /\ Commit(n.s)
                   /\ CommitNetVars(n.w)
    /\ UNCHANGED << pc, irqEdge, bootEnv, timeVars >>

TouchInit ==
    /\ SyncInitOn(SavedSettings)
    /\ calcIn = NoCall
    /\ prefs = [hasTime |-> FALSE, time |-> ClockTime(0, 0, 0, 0, 0, 0), dst |-> FALSE]
    /\ bootEnv = BareBoard
    /\ NetInit
    /\ wifiPrefs = [has |-> FALSE, ssid |-> "", pass |-> ""]

TouchNext ==
    \/ Setup
    \/ TouchSample

TouchSpec == TouchInit /\ [][TouchNext]_vars

(***************************************************************************)
(* The software clock on its own: setTime, then tick() at the gaps the     *)
(* main loop can leave between two calls (the watchdog resets the board    *)
(* when the loop stalls for WDT_TIMEOUT_MS).                               *)
(***************************************************************************)
TickStarts ==
    { ClockTime(2025, 1, 31, 23, 59, 59), ClockTime(2025, 12, 31, 23, 59, 59),
      ClockTime(2024, 2, 28, 23, 59, 59), ClockTime(2025, 2, 28, 23, 59, 59),
      ClockTime(2024, 2, 29, 23, 0, 0), ClockTime(2025, 4, 30, 23, 30, 30) }

TickGaps == { DISPLAY_UPDATE_MS, DISPLAY_UPDATE_MS + 500, WDT_TIMEOUT_MS }

\* timeManager.setTime(...): the clock restarts from t with nothing accumulated
SetClock ==
    /\ ~timeSet
    /\ \E t \in TickStarts :
          /\ \E n \in {setTime(Cur, t)} : Commit(n)
          /\ setAt' = t
    /\ accumMillis' = 0
    /\ elapsedMs' = 0
    /\ calcIn' = [NoCall EXCEPT !.fn = "setTime"]
    /\ UNCHANGED << pc, irqEdge, bootEnv, netVars, histMillis, shifts, blocked, calcOut >>

\* timeManager.tick(), gap milliseconds after the call before (or after setTime)
TickCall ==
    /\ timeSet
    /\ \E gap \in TickGaps :
          /\ elapsedMs + gap <= MaxElapsedMs
          /\ elapsedMs' = elapsedMs + gap
          /\ \E c \in {tick([tm |-> tm, timeSet |-> timeSet, accumMillis |-> accumMillis],
                              gap)} :
                /\ \E n \in {[Cur EXCEPT !.tm = c.tm]} : Commit(n)
                /\ accumMillis' = c.accumMillis
          /\ calcIn' = [NoCall EXCEPT !.fn = "tick", !.offset = gap]
    /\ UNCHANGED << pc, irqEdge, bootEnv, netVars, setAt, histMillis, shifts, blocked,
                    calcOut >>

ClockNext ==
    \/ SetClock
    \/ TickCall

ClockInit ==
    /\ WifiInit
    /\ ~wifiPrefs.has

ClockSpec == ClockInit /\ [][ClockNext]_vars

(***************************************************************************)
(* The reception history as any owner may drive it: recordAttempt and      *)
(* hourlyTick calls in any order.                                          *)
(***************************************************************************)
\* The bare board with nothing persisted
BareInit ==
    /\ WifiInit
    /\ ~wifiPrefs.has

RecordWith(bound) ==
    /\ hist.totalAttempts < bound
    /\ \E success \in BOOLEAN :
          /\ \E n \in {[Cur EXCEPT !.hist = recordAttempt(@, success)]} : Commit(n)
          /\ calcIn' = [NoCall EXCEPT !.fn = "recordAttempt", !.flag = success]
    /\ UNCHANGED << pc, irqEdge, bootEnv, netVars, accumMillis, setAt, elapsedMs,
                    histMillis, shifts, blocked, calcOut >>

\* receptionHistory.recordAttempt(success), a few calls among the hourly ticks
RecordCall == RecordWith(MaxRecorded)

\* receptionHistory.recordAttempt(success), call after call
RecordMany == RecordWith(MaxSuccesses)

\* receptionHistory.hourlyTick(), one second after the call before
HourlyTickCall ==
    /\ shifts < MaxHistShifts
    /\ \E h \in {hourlyTick(hist)} :
          /\ \E n \in {[Cur EXCEPT !.hist = h]} : Commit(n)
          /\ shifts' = IF h.secondsInCurrentHour = 0 THEN shifts + 1 ELSE shifts
    /\ histMillis' = histMillis + 1000
    /\ calcIn' = [NoCall EXCEPT !.fn = "hourlyTick"]
    /\ UNCHANGED << pc, irqEdge, bootEnv, netVars, accumMillis, setAt, elapsedMs,
                    blocked, calcOut >>

HistNext ==
    \/ RecordCall
    \/ HourlyTickCall

HistSpec == BareInit /\ [][HistNext]_vars

SaturateSpec == BareInit /\ [][RecordMany]_vars

\* The board with its receiver answering, nothing persisted but, possibly, WiFi
\* credentials
ServeInit ==
    /\ SyncInit
    /\ calcIn = NoCall
    /\ prefs = [hasTime |-> FALSE, time |-> ClockTime(0, 0, 0, 0, 0, 0), dst |-> FALSE]
    /\ bootEnv \in { b \in BootInputs : b.found /\ b.writeOk /\ ~b.rtc.present }
    /\ NetInit
    /\ wifiPrefs \in SavedCredentials

ServeNext ==
    \/ Setup
    \/ WwvbDecoded
    \/ LoopWifi
    \/ LinkUp
    \/ LinkDown
    \/ WifiTime
    \/ DatagramArrives
    \/ NtpPoll

ServeSpec == ServeInit /\ [][ServeNext]_vars

NtpNext ==
    \/ NtpBegin
    \/ NtpStop
    \/ ClockSet
    \/ DatagramArrives
    \/ NtpPoll

NtpSpec == Init /\ [][NtpNext]_vars

(***************************************************************************)
(* Properties of the sync schedule                                         *)
(***************************************************************************)
\* isNighttimeWindow() on the current state
NightNow == isNighttimeWindow(Cur)

\* The step records one failed / one successful attempt in the history
FailureRecorded ==
    /\ hist'.totalAttempts = hist.totalAttempts + 1
    /\ hist'.totalSuccess = hist.totalSuccess

SuccessRecorded == hist'.totalSuccess = hist.totalSuccess + 1

\* The step calls ES100::startReception
StartCalled == "startReception" \in drvCalls'

C2_InitialInterval ==
    [][ ( /\ pc = "sched"
          /\ pc' = "delay"
          /\ hist.lastSuccessTime = 0
          /\ es100Available
          /\ ~es100Receiving
          /\ sinceAttempt >= SYNC_INTERVAL_INITIAL_MS ) => StartCalled
      ]_vars

\* The same with the daytime skip excluded: the skip is the only obstacle
C2_UnlessSkipping ==
    [][ ( /\ pc = "sched"
          /\ pc' = "delay"
          /\ hist.lastSuccessTime = 0
          /\ es100Available
          /\ ~es100Receiving
          /\ sinceAttempt >= SYNC_INTERVAL_INITIAL_MS
          /\ ~(daytimeSkipActive /\ ~NightNow') ) => StartCalled
      ]_vars

\* The receiver has signalled reception complete and the main program has not
\* yet read it: with / without the RX_OK bit
ResultPending == enPin /\ chip.irq % 2 = ES100_IRQ_RX_COMPLETE

HandlerRuns == pc = "irq" /\ pc' = "sched" /\ es100InterruptFlag /\ es100Receiving

RxTimeout == IF es100UsingTracking THEN SYNC_TIMEOUT_TRACKING_MS
             ELSE SYNC_TIMEOUT_NORMAL_MS

\* A normal-mode start is made after a stop; reception is on again in normal
\* mode with lastSyncAttempt set in this step unless the driver refuses the
\* start, which is recorded as a failure
FreshNormalAttempt ==
    /\ {"stopReception", "startReception(NORMAL)"} \subseteq drvCalls'
    /\ "startReception(TRACKING)" \notin drvCalls'
    /\ ~es100UsingTracking'
    /\ \/ /\ es100Receiving'
          /\ chip'.ctrl = ES100_CTRL0_NORMAL
          /\ sinceAttempt' = 0
       \/ ~es100Receiving' /\ FailureRecorded

C4_TimeoutEnds ==
    [][ /\ ( /\ pc = "sched" /\ pc' = "delay"
             /\ es100Receiving
             /\ sinceAttempt > RxTimeout )
           => /\ "stopReception" \in drvCalls'
              /\ ~es100Receiving' \/ FreshNormalAttempt
        /\ es100Receiving' => sinceAttempt' <= RxTimeout' + LOOP_DELAY_MS
      ]_vars

\* A pass has just ended a normal-mode attempt older than 180 s
C4_Witness ==
    /\ pc = "delay"
    /\ "stopReception" \in drvCalls
    /\ "readIRQStatus" \notin drvCalls
    /\ ~es100Receiving
    /\ sinceAttempt > SYNC_TIMEOUT_NORMAL_MS
    /\ hist.totalAttempts >= 1

\* The date-time the registers hold, converted by hand for the sampled values
RegistersRead ==
    IF chip.time = <<37, 6, 21, 18, 0, 0>> THEN ClockTime(2025, 6, 15, 12, 0, 0)
    ELSE IF chip.time = <<37, 38, 22, 66, 48, 128>> THEN ClockTime(2025, 6, 16, 2, 30, 0)
    ELSE ClockTime(0, 0, 0, 0, 0, 0)

DstCode == (chip.status0 \div 32) % 4

ResultReads == {"readIRQStatus", "readStatus0", "readDateTime"}

\* C7: the interrupt routine's step (the only one that takes the pending edge)
\* sets es100InterruptFlag and changes nothing else of the program or the
\* receiver; the IRQ status, status0 and date-time reads, and the stop that
\* follows them, are made only by the loop's flag check, in a step that found
\* the flag set and leaves it cleared.
C7_IsrOnlySetsFlag ==
    [][ /\ (irqEdge /\ ~irqEdge')
           => /\ es100InterruptFlag'
              /\ drvCalls' = {}
              /\ UNCHANGED << pc, es100Receiving, es100Available, es100TrackingReady,
                              es100UsingTracking, sinceAttempt, daytimeFailures,
                              daytimeSkipActive, es100InitRetries, drv, enPin, chip,
                              deviceVars, tm, timeSet, utcOffset, dstActive, lastTimeSource,
                              prefs, hist, ntpStratum, ntpRefId >>
        /\ (drvCalls' \cap ResultReads # {})
           => /\ pc = "irq" /\ pc' = "sched"
              /\ es100InterruptFlag
              /\ ~es100InterruptFlag'
        /\ (pc = "irq" /\ "stopReception" \in drvCalls')
           => "readIRQStatus" \in drvCalls'
      ]_vars

\* The interrupt has been taken during a reception and the result is still
\* unread in the receiver
C7_Witness ==
    /\ es100InterruptFlag
    /\ ~irqEdge
    /\ es100Receiving
    /\ ResultPending
    /\ drvCalls = {}

\* C6: with the receiver available, whenever some attempt has failed and none
\* is in progress, a start is eventually made.
C6_NoFailureFatal ==
    (pc # "setup" /\ es100Available /\ ~es100Receiving
       /\ hist.totalAttempts > hist.totalSuccess)
    ~> ("startReception" \in drvCalls)

\* With the daytime skip still set after three failures, the scheduler has
\* started an attempt again (at night)
C6_Witness ==
    /\ pc = "delay"
    /\ hist.totalAttempts - hist.totalSuccess >= SYNC_DAY_MAX_FAILURES
    /\ daytimeSkipActive
    /\ es100Receiving
    /\ "startReception" \in drvCalls

(***************************************************************************)
(* Properties of the WiFi manager and the captive portal                   *)
(***************************************************************************)
\* The step runs the credentials callback
CallbackRuns == "[PORTAL] Got credentials" \in serialLog'

\* The step takes the device from access-point mode into a connection attempt
ApToStation == wifiState = "AP_MODE" /\ wifiState' = "CONNECTING"

\* C8: a step that runs the credentials callback (inside the portal's HTTP
\* handler) sets portalCredsReceived and otherwise changes nothing but the stored
\* SSID and password (and the handler's own status message): wifiState, the
\* portal's running state and the radio stay as they were. A step from
\* access-point mode into connecting is a wifiLoop pass that found the flag set:
\* it clears the flag, stops the portal, drops the access point, leaves the radio
\* in station mode joining, and connects with the stored credentials.
C8_CredentialsOutOfBand ==
    [][ /\ CallbackRuns =>
            /\ portalCredsReceived'
            /\ wifiState' = wifiState
            /\ portal'.running = portal.running
            /\ radio' = radio
            /\ UNCHANGED << wifiErrorMsg, wifiElapsed, ntpRunning, requestCount,
                            statusRunning, wifiPrefs, scanned, selectedNetwork,
                            kbMode, passwordBuffer, tm, timeSet, lastTimeSource >>
        /\ ApToStation =>
            /\ portalCredsReceived /\ ~portalCredsReceived'
            /\ "[WIFI] Portal credentials received" \in serialLog'
            /\ portal.running /\ ~portal'.running
            /\ radio.ap
            /\ radio' = [sta |-> TRUE, ap |-> FALSE, link |-> "joining"]
            /\ wifiSSID' = wifiSSID
            /\ wifiPassword' = wifiPassword ]_vars

\* Credentials that only the portal can have delivered are being used by a
\* connection attempt that a wifiLoop pass has just started
C8_Witness ==
    /\ "[WIFI] Portal credentials received" \in serialLog
    /\ wifiState = "CONNECTING"
    /\ wifiSSID = "cafe"
    /\ wifiPassword = "pw"
    /\ ~portal.running

\* C9: a connection attempt does not last for ever: connecting leads to a state
\* other than connecting. It ends in connected only with the link up, in idle
\* only with a non-empty error message and, unless the user cancelled, with more
\* than 15 s gone since the attempt started, and otherwise only by the radio
\* being switched off from the settings page.
C9_ConnectingEnds ==
    /\ (wifiState = "CONNECTING") ~> (wifiState # "CONNECTING")
    /\ [][ (wifiState = "CONNECTING" /\ wifiState' # "CONNECTING") =>
             \/ wifiState' = "CONNECTED" /\ radio.link = "up"
             \/ /\ wifiState' = "IDLE"
                /\ wifiErrorMsg' # ""
                /\ \/ radio.link # "up" /\ wifiElapsed > 15000
                   \/ "[WIFI] Connection cancelled" \in serialLog'
             \/ wifiState' = "OFF" /\ ~radio'.sta ]_vars

\* An attempt has just timed out
C9_Witness ==
    /\ wifiState = "IDLE"
    /\ wifiErrorMsg = "Connection failed"
    /\ "[WIFI] Connection timeout" \in serialLog
    /\ wifiElapsed > 15000

(***************************************************************************)
(* Properties of the NTP server                                            *)
(***************************************************************************)
\* The clock's time in seconds of the NTP epoch, as handleClient computes it
NtpNow == unixToNTP(getUnixTime(tm))

NtpServerLines ==
    { "[NTP] Undersized packet", "[NTP] Ignoring request, time not set",
      "[NTP] Ignoring request, before 2020", "[NTP] Response" }

\* The step is a poll of the running server that takes up a waiting datagram
PollTakes == ntpRunning /\ udpQueue # << >> /\ serialLog' \cap NtpServerLines # {}

\* C10: a poll that takes up a datagram shorter than 48 bytes, or one while the
\* clock is not set, or one while the clock in the NTP epoch is below
\* 3786825600, sends nothing and leaves the request counter alone; the short
\* datagram is gone from the queue afterwards, the next one at its head.
C10_NoResponseCases ==
    [][ ( /\ PollTakes
          /\ \/ Head(udpQueue) < 48
             \/ ~timeSet
             \/ U32Less(NtpNow, U32(57782, 24448)) ) =>
            /\ sentCount' = sentCount
            /\ requestCount' = requestCount
            /\ Head(udpQueue) < 48 => udpQueue' = Tail(udpQueue) ]_vars

\* A short datagram has just been dropped by a server that has answered before,
\* and the datagram behind it is now first
C10_Witness ==
    /\ "[NTP] Undersized packet" \in serialLog
    /\ requestCount > 0
    /\ sentCount = requestCount
    /\ udpQueue # << >>

\* The step puts a response on the wire
ResponseSent == sentCount' = sentCount + 1

\* C11: every response sent while the last time source is WWVB has stratum 1
\* and the reference identifier "WWVB" (87, 87, 86, 66), and every response sent
\* while the last time source is NTP has stratum 2 and, as its reference
\* identifier, the four octets of the upstream address of the last NTP sync.
C11_StratumMatchesSource ==
    [][ ResponseSent =>
          /\ lastTimeSource = "WWVB" =>
                ntpResponse'.b1 = 1 /\ ntpResponse'.refId = << 87, 87, 86, 66 >>
          /\ lastTimeSource = "NTP" =>
                ntpResponse'.b1 = 2 /\ ntpResponse'.refId = ntpServerIP ]_vars

\* A response has just gone out with stratum 1 and "WWVB" after the clock had
\* been set from the upstream server earlier and from the receiver since
C11_Witness ==
    /\ "[NTP] Response" \in serialLog
    /\ lastTimeSource = "WWVB"
    /\ ntpServerIP = << 129, 6, 15, 28 >>
    /\ ntpResponse.b1 = 1
    /\ ntpResponse.refId = << 87, 87, 86, 66 >>

\* C12: a response put on the wire has byte 0 = (max(version of the request, 3)
\* shifted left by 3) or 4, byte 1 = the server's stratum, byte 2 = the
\* request's byte 2, bytes 12..15 = the server's reference identifier and
\* bytes 24..31 = the request's bytes 40..47.
C12_ResponseFields ==
    [][ ResponseSent =>
          LET version == (ntpRequest'.b0 \div 8) % 8
              floored == IF version > 3 THEN version ELSE 3
          IN /\ ntpResponse'.b0 = (floored * 8) + 4
             /\ ntpResponse'.b1 = ntpStratum
             /\ ntpResponse'.b2 = ntpRequest'.b2
             /\ ntpResponse'.refId = ntpRefId
             /\ ntpResponse'.origin = ntpRequest'.xmit ]_vars

\* A version 2 request has just been answered as version 3 by a stratum 2 server
C12_Witness ==
    /\ "[NTP] Response" \in serialLog
    /\ ntpRequest.b0 = 19
    /\ ntpResponse.b0 = 28
    /\ ntpResponse.b1 = 2
    /\ ntpResponse.b2 = 10
    /\ ntpResponse.origin = << 235, 248, 52, 64, 128, 0, 0, 1 >>

(***************************************************************************)
(* Properties of the reception history and the clock                       *)
(***************************************************************************)
\* C13: the buckets have been shifted once for every hour of millis() gone by
\* since the history began, the hour in progress still open for at most the
\* watchdog's 15 seconds after its end.
C13_ShiftPerHour ==
    /\ shifts * 3600000 <= histMillis
    /\ histMillis < ((shifts + 1) * 3600000) + 15000

\* C14: with no hourly shift in between, every recordAttempt call adds one to
\* the lifetime attempts, every successful one adds one to the lifetime
\* successes, and the newest bucket is the smaller of the successes so far and 255.
C14_BucketSaturates ==
    [][ (calcIn'.fn = "recordAttempt" /\ shifts' = 0) =>
          /\ hist'.totalAttempts = hist.totalAttempts + 1
          /\ hist'.totalSuccess = hist.totalSuccess + (IF calcIn'.flag THEN 1 ELSE 0)
          /\ hist'.buckets[48] = IF hist'.totalSuccess < 255 THEN hist'.totalSuccess
                                 ELSE 255 ]_vars

\* 257 successes and one failure recorded, the newest bucket at 255
C14_Witness ==
    /\ calcIn.fn = "recordAttempt"
    /\ hist.totalSuccess = 257
    /\ hist.totalAttempts = 258
    /\ hist.buckets[48] = 255

\* C15: an hourlyTick call that is the 3600th, 7200th, ... since the history
\* began moves every bucket's value one place down, drops the oldest and zeroes
\* the newest; every other hourlyTick call leaves the 48 buckets as they are;
\* no hourlyTick call touches the lifetime counters.
C15_ShiftEvery3600 ==
    [][ calcIn'.fn = "hourlyTick" =>
          /\ IF ((histMillis' \div 1000) % 3600) = 0
             THEN /\ \A i \in 1..47 : hist'.buckets[i] = hist.buckets[i + 1]
                  /\ hist'.buckets[48] = 0
             ELSE hist'.buckets = hist.buckets
          /\ hist'.totalSuccess = hist.totalSuccess
          /\ hist'.totalAttempts = hist.totalAttempts
          /\ hist'.lastSuccessTime = hist.lastSuccessTime ]_vars

\* The 7200th call has just shifted: a success of the first hour is two places
\* down, one of the second hour one place down, the newest bucket empty
C15_Witness ==
    /\ calcIn.fn = "hourlyTick"
    /\ histMillis = 7200000
    /\ hist.buckets[46] = 1
    /\ hist.buckets[47] = 1
    /\ hist.buckets[48] = 0
    /\ hist.totalSuccess = 2

\* C16: setUnixTime(t) followed by getUnixTime() gives t back, for t from 1970
\* to 2099, and the fields setUnixTime leaves are a date of the calendar and a
\* time of day.
C16_UnixRoundTrip ==
    calcOut.fn = "setUnixTime" =>
       /\ calcOut.unix = calcIn.unix
       /\ RefValid(tm)

\* 4102444799 has been set and read back: 2099-12-31 23:59:59
C16_Witness ==
    /\ calcOut.fn = "setUnixTime"
    /\ calcIn.unix = U32(62598, 22271)
    /\ tm = ClockTime(2099, 12, 31, 23, 59, 59)
    /\ calcOut.unix = U32(62598, 22271)

\* C17: after a setTime, whatever the gaps between the tick() calls (none above
\* the watchdog's 15 s), the clock stands exactly floor(elapsed ms / 1000)
\* seconds after the time that was set, by the civil calendar, and what is left
\* below a second is kept for the next call.
C17_TickConserves ==
    timeSet =>
       /\ tm = RefAfter(setAt, 0, elapsedMs \div 1000)
       /\ accumMillis = elapsedMs % 1000

\* One hour after Dec 31 2025 23:59:59 by ticks, the year has rolled over
C17_Witness ==
    /\ timeSet
    /\ setAt = ClockTime(2025, 12, 31, 23, 59, 59)
    /\ elapsedMs = SECONDS_PER_HOUR * 1000
    /\ tm = ClockTime(2026, 1, 1, 0, 59, 59)

\* C18: getLocalTime(offset, dst), for offsets -12..14 with or without DST,
\* returns the date-time offset + (dst ? 1 : 0) hours from the stored UTC time
\* by the civil calendar, and the stored UTC time stays as it was.
C18_LocalTimeIsOffsetHours ==
    calcOut.fn = "getLocalTime" =>
       /\ calcOut.time = RefAfter(calcIn.time, calcIn.offset + (IF calcIn.flag THEN 1 ELSE 0), 0)
       /\ RefValid(calcOut.time)
       /\ tm = calcIn.time

\* Offset -5 on UTC Jan 1 2025 02:00:00 gave Dec 31 2024 21:00:00
C18_Witness ==
    /\ calcOut.fn = "getLocalTime"
    /\ calcIn.time = ClockTime(2025, 1, 1, 2, 0, 0)
    /\ calcIn.offset = 0 - 5
    /\ ~calcIn.flag
    /\ calcOut.time = ClockTime(2024, 12, 31, 21, 0, 0)
    /\ tm = ClockTime(2025, 1, 1, 2, 0, 0)

\* C19: computeUSDST answers by the local standard time: false in December,
\* January and February, true from April to October, in March true from 02:00
\* of the second Sunday on, in November true until 02:00 of the first Sunday.
C19_USDSTRule ==
    calcOut.fn = "computeUSDST" =>
       calcOut.flag = RefUSDST(RefAfter(calcIn.time, calcIn.offset, 0))

\* Local standard time Mar 9 2025 02:00:00 at offset -5: DST is found active
C19_Witness ==
    /\ calcOut.fn = "computeUSDST"
    /\ calcIn.offset = 0 - 5
    /\ calcIn.time = ClockTime(2025, 3, 9, 7, 0, 0)
    /\ calcOut.time = ClockTime(2025, 3, 9, 2, 0, 0)
    /\ calcOut.flag

\* C20: calculateDayOfWeek gives, for every date of the calendar, a number in
\* 0..6 that is the weekday of the date with 0 = Sunday and 6 = Saturday.
C20_DayOfWeekIsGregorian ==
    calcOut.fn = "calculateDayOfWeek" =>
       /\ calcOut.num \in 0..6
       /\ calcOut.num = RefWeekday(calcIn.time.year, calcIn.time.month, calcIn.time.day)

\* January 1, 2000 was found to be a Saturday
C20_Witness ==
    /\ calcOut.fn = "calculateDayOfWeek"
    /\ calcIn.time = ClockTime(2000, 1, 1, 0, 0, 0)
    /\ calcOut.num = 6

\* C21: lipoBatteryPercent gives a percentage in 0..100: 0 at or below 3300 mV,
\* 100 at or above 4200 mV, the table's percentage at each of the 12 table
\* points, between two neighbouring points the linear interpolation rounded
\* down, and never less than what a lower voltage gives.
C21_BatteryPercent ==
    calcOut.fn = "lipoBatteryPercent" =>
       LET mv == calcIn.num
           pct == calcOut.num
       IN /\ pct \in 0..100
          /\ mv <= 3300 => pct = 0
          /\ mv >= 4200 => pct = 100
          /\ \A i \in 1..12 : mv = voltTable[i] => pct = pctTable[i]
          /\ \A i \in 1..11 :
                voltTable[i] <= mv /\ mv <= voltTable[i + 1] =>
                   LET dv == voltTable[i + 1] - voltTable[i]
                       rise == (mv - voltTable[i]) * (pctTable[i + 1] - pctTable[i])
                   IN /\ (pct - pctTable[i]) * dv <= rise
                      /\ rise < ((pct - pctTable[i]) + 1) * dv
          /\ \A lower \in MilliVolts : lower <= mv => lipoBatteryPercent(lower) <= pct

\* 3825 mV has been converted, to 45
C21_Witness ==
    /\ calcOut.fn = "lipoBatteryPercent"
    /\ calcIn.num = 3825
    /\ calcOut.num = 45

BatteryEvaluated == histMillis' # histMillis

\* C22: the low-battery alert turns on only in a once-per-second evaluation
\* that reads at most 10 %, not charging, a non-zero voltage; once on it stays
\* on through every evaluation (charging or not) that reads 15 % or less and
\* turns off in the evaluation that reads more than 15 %; the alert line is
\* logged only by the evaluation that turns the alert on.
C22_LowBatteryHysteresis ==
    [][ /\ (~lowBatteryAlerted /\ lowBatteryAlerted')
           => /\ BatteryEvaluated
              /\ statusData'.batteryPct <= 10
              /\ ~statusData'.batteryCharging
              /\ statusData'.batteryMv > 0
        /\ (lowBatteryAlerted /\ ~lowBatteryAlerted')
           => /\ BatteryEvaluated
              /\ statusData'.batteryPct > 15
        /\ (lowBatteryAlerted /\ BatteryEvaluated /\ statusData'.batteryPct > 15)
           => ~lowBatteryAlerted'
        /\ (BatteryEvaluated /\ "LOW BATTERY ALERT" \in battLog')
           => (~lowBatteryAlerted /\ lowBatteryAlerted')
      ]_vars

\* The alert is on while the battery reads 15 % on the charger: it was turned
\* on earlier and has survived this evaluation
C22_Witness ==
    /\ lowBatteryAlerted
    /\ statusData.batteryPct = 15
    /\ statusData.batteryCharging
    /\ battLog = {}

RetrySchedule == << 5000, 10000, 30000, 60000, 300000 >>

\* C23: after setup, at most 5 initialization attempts are made; the k-th is
\* made with the receiver unavailable and at least 5 s, 10 s, 30 s, 60 s, 300 s
\* (k = 1..5) after the attempt before it; an attempt that succeeds makes the
\* receiver available, and no attempt is made while it is available or after
\* the fifth.
C23_InitRetrySchedule ==
    [][ pc # "setup" =>
          /\ initAttempts' \in {initAttempts, initAttempts + 1}
          /\ initAttempts' <= 5
          /\ (initAttempts' = initAttempts + 1)
             => /\ ~es100Available
                /\ calcIn'.num >= RetrySchedule[initAttempts']
                /\ es100Available' = calcIn'.flag
          /\ (initAttempts' = initAttempts) => (es100Available' = es100Available)
      ]_vars

\* Five retries have failed, and passes have gone by since without another
C23_Witness ==
    /\ initAttempts = 5
    /\ ~es100Available
    /\ es100InitRetries = 5
    /\ initSince > 300000

\* C24: at the end of setup and of every pass of the loop, the receiver's
\* enable line is high only if a reception is in progress.
C24_PoweredOnlyWhileReceiving ==
    pc = "irq" => (enPin => es100Receiving)

\* The same with the one case left out: the enable line may stay high with no
\* reception in progress when the driver has raised it and the write that
\* starts the reception was not acknowledged
C24_UnlessStartFailed ==
    (pc = "irq" /\ enPin /\ ~es100Receiving)
       => (drv.initialized /\ ~drv.receiving /\ chip = ChipOff)

\* C25: in every receiver register read, single or burst, the data are read
\* after a STOP and a new START that follow the register address; no read has
\* a repeated start.
C25_StopBeforeRead ==
    \A j \in DOMAIN busLog :
       /\ busLog[j] # "RESTART"
       /\ busLog[j] = "READ" => (j > 2 /\ busLog[j - 1] = "START" /\ busLog[j - 2] = "STOP")


\* C26: when setup finishes the clock is set: from the real-time-clock chip if
\* it is present and reports a year in 2025..2100, otherwise from the
\* persisted record if there is one, otherwise 2025-01-01 00:00:00 UTC; the
\* time source is recorded as RTC in the first case only.
RtcUsable == bootEnv.rtc.present /\ bootEnv.rtc.time.year \in 2025..2100

C26_StartupTimePriority ==
    [][pc = "setup" =>
          /\ timeSet'
          /\ tm' = IF RtcUsable THEN bootEnv.rtc.time
                   ELSE IF prefs.hasTime THEN prefs.time
                   ELSE ClockTime(2025, 1, 1, 0, 0, 0)
          /\ (lastTimeSource' = "RTC") <=> RtcUsable]_vars

\* C26 witnesses: setup has run and the clock holds the real-time-clock
\* chip's time, recorded as RTC; and the clock holds the persisted time
C26_Witness ==
    /\ pc = "irq"
    /\ timeSet
    /\ lastTimeSource = "RTC"
    /\ tm = ClockTime(2025, 6, 15, 12, 0, 0)

\* C27: a record restored with less than one hour elapsed since the save
\* gives the saved date-time advanced by floor(elapsed / 1000) seconds; with
\* one hour or more elapsed the saved date-time is restored unchanged.
C27_ReplayAdvances ==
    calcOut.fn = "loadTimeFromPreferences" =>
        tm = IF calcIn.num < 3600000
             THEN RefAfter(calcIn.time, 0, calcIn.num \div 1000)
             ELSE calcIn.time

\* What the replay does: whatever the elapsed time, the restored clock holds
\* the saved date-time
C27_ReplayKeepsSaved ==
    calcOut.fn = "loadTimeFromPreferences" => tm = calcIn.time /\ timeSet

C27_Restored ==
    /\ calcOut.fn = "loadTimeFromPreferences"
    /\ calcIn.num = 61000
    /\ tm = calcIn.time

\* C28: whenever no touch is in progress the persisted brightness equals the
\* brightness in memory and the persisted UTC offset the offset in memory, a
\* missing key counting as the boot default; the brightness key is written
\* only when a touch ends (slider release or tap) or at shutdown, and every
\* change of the offset is written in the same step.
PersistedBrightness ==
    IF savedSettings.hasBrightness THEN savedSettings.brightness ELSE DISPLAY_BRIGHTNESS

PersistedUtcOffset ==
    IF savedSettings.hasUtcOffset THEN savedSettings.utcOffset ELSE DEFAULT_UTC_OFFSET

SettingsInSync ==
    (pc # "setup" /\ ~touchActive) =>
        /\ PersistedBrightness = currentBrightness
        /\ PersistedUtcOffset = utcOffset

SettingsWrittenWhen ==
    /\ PersistedBrightness' # PersistedBrightness =>
          (touchActive /\ ~touchActive') \/ asleep'
    /\ (pc # "setup" /\ utcOffset' # utcOffset) => PersistedUtcOffset' = utcOffset'

C28_SettingsPersistence == []SettingsInSync /\ [][SettingsWrittenWhen]_vars

\* C28 witness: after a slider release and a stepper tap, with no touch in
\* progress, both new values are in flash
C28_Witness ==
    /\ pc # "setup"
    /\ ~touchActive
    /\ currentBrightness = BRIGHTNESS_MAX
    /\ savedSettings.hasBrightness /\ savedSettings.brightness = BRIGHTNESS_MAX
    /\ utcOffset = DEFAULT_UTC_OFFSET + 1
    /\ savedSettings.hasUtcOffset /\ savedSettings.utcOffset = DEFAULT_UTC_OFFSET + 1

\* C30: in every UI state, a touch held within 30 px of its start point
\* activates the shutdown countdown once held for 2 seconds and triggers
\* shutdown once held for 10 seconds; shutdown persists the brightness and the
\* current time before the device sleeps; releasing the touch earlier cancels
\* the countdown.
HeldStill ==
    /\ touchActive /\ touchActive'
    /\ touchHeld' > touchHeld
    /\ abs(touchLastX' - touchStartX) < LONG_PRESS_MOVE_PX
    /\ abs(touchLastY' - touchStartY) < LONG_PRESS_MOVE_PX

LongPressSteps ==
    /\ (HeldStill /\ touchHeld' >= SHUTDOWN_HOLD_MS) => asleep'
    /\ (HeldStill /\ touchHeld' >= SHUTDOWN_FEEDBACK_MS /\ touchHeld' < SHUTDOWN_HOLD_MS) =>
          shutdownCountdownActive'
    /\ (asleep' /\ ~asleep) =>
          /\ PersistedBrightness' = currentBrightness
          /\ prefs'.hasTime /\ prefs'.time = tm
    /\ (touchActive /\ ~touchActive') => (~shutdownCountdownActive' /\ ~asleep')

C30_LongPressShutdown == [][LongPressSteps]_vars

\* The same with the on-screen keyboard hidden
C30_WithKeyboardHidden == [][kbMode = "HIDDEN" => LongPressSteps]_vars

\* A touch held still for ten seconds with the keyboard on screen: the
\* device is awake and no countdown is shown
C30_HeldOnKeyboard ==
    /\ kbMode # "HIDDEN"
    /\ touchActive
    /\ touchHeld >= SHUTDOWN_HOLD_MS
    /\ abs(touchLastX - touchStartX) < LONG_PRESS_MOVE_PX
    /\ abs(touchLastY - touchStartY) < LONG_PRESS_MOVE_PX
    /\ ~asleep
    /\ ~shutdownCountdownActive

\* The device asleep after a long press, brightness and time in flash
C30_Shutdown ==
    /\ asleep
    /\ prefs.hasTime
    /\ savedSettings.hasBrightness

\* C29: a connection attempt that times out or is cancelled returns the WiFi
\* state to idle with a message for the user and leaves the persisted SSID and
\* password as they were; the persisted credentials are written only when a
\* connection succeeds.
AttemptGivenUp ==
    \/ "[WIFI] Connection timeout" \in serialLog'
    \/ "[WIFI] Connection cancelled" \in serialLog'

AttemptSteps ==
    /\ (wifiState = "CONNECTING" /\ wifiState' = "IDLE") => AttemptGivenUp
    /\ AttemptGivenUp =>
          /\ wifiState = "CONNECTING" /\ wifiState' = "IDLE"
          /\ wifiErrorMsg' \in {"Connection failed", "Cancelled"}
          /\ wifiPrefs' = wifiPrefs
    /\ wifiPrefs' # wifiPrefs =>
          /\ wifiState = "CONNECTING" /\ wifiState' = "CONNECTED"
          /\ radio.link = "up"
          /\ wifiPrefs' = [has |-> TRUE, ssid |-> wifiSSID, pass |-> wifiPassword]

C29_FailedAttemptKeepsCredentials == [][AttemptSteps]_vars

\* C29 witness: an attempt on another network has timed out; the state is
\* idle, the message is shown and the credentials saved earlier are in flash
C29_Witness ==
    /\ wifiState = "IDLE"
    /\ wifiErrorMsg = "Connection failed"
    /\ wifiSSID = "cafe"
    /\ wifiPrefs = [has |-> TRUE, ssid |-> "home", pass |-> "pw"]

(***************************************************************************)
(* C31: every reception attempt that ends without a valid decode is        *)
(* recorded as exactly one failed attempt                                  *)
(***************************************************************************)
\* A reception that was running stops, or a tracking-mode reception is
\* replaced by its normal-mode fallback, and no success is recorded.
TrackingGivenUp == es100Receiving /\ es100UsingTracking /\ ~es100UsingTracking'

ReceptionEndsUndecoded ==
    /\ es100Receiving
    /\ (~es100Receiving' \/ TrackingGivenUp)
    /\ hist'.totalSuccess = hist.totalSuccess

OneFailureRecorded ==
    /\ hist'.totalAttempts = hist.totalAttempts + 1
    /\ hist'.totalSuccess = hist.totalSuccess

\* C31: a step in which a reception attempt (normal or tracking mode) ends
\* without a valid decode adds exactly one failed attempt to the Reception
\* History.
C31_EveryEndedAttemptRecorded ==
    [][ReceptionEndsUndecoded => OneFailureRecorded]_vars

\* C31, normal mode only: a normal-mode reception that ends without a valid
\* decode adds exactly one failed attempt to the Reception History.
C31_NormalModeRecorded ==
    [][(ReceptionEndsUndecoded /\ ~es100UsingTracking) => OneFailureRecorded]_vars

\* a tracking-mode attempt has ended and its fallback runs, nothing recorded
C31_TrackingFallbackRunning ==
    /\ es100Receiving /\ ~es100UsingTracking
    /\ hist.totalSuccess = 1 /\ hist.totalAttempts = 1
    /\ es100TrackingReady = FALSE

(***************************************************************************)
(* The connect-time NTP sync with millis() followed: the clock is set by    *)
(* the receiver or by NTP at one reading of millis() and the station        *)
(* connects at a later one. The readings lie one hour, two hours and two    *)
(* hours and a millisecond after boot, and on both sides of the roll-over   *)
(* of the 32-bit counter after 49.7 days.                                   *)
(***************************************************************************)
\* The literal 7200000UL of wifiCheckConnection (line 891)
NTP_RESYNC_AFTER_MS == 7200000

UINT32_MAX == U32(65535, 65535)

\* sinceLast of wifiCheckConnection (line 890)
sinceLast(w) ==
    IF w.lastTimeSyncMillis.hi > 0 \/ w.lastTimeSyncMillis.lo > 0
    THEN U32Sub(w.nowMillis, w.lastTimeSyncMillis)
    ELSE UINT32_MAX

\* sinceLast > 7200000UL (line 891)
SyncIsStale(w) == U32Less(ToU32(NTP_RESYNC_AFTER_MS), sinceLast(w))

MillisAt(ms, wraps) == [hi |-> ToU32(ms).hi, lo |-> ToU32(ms).lo, wraps |-> wraps]

MillisPoints ==
    << BootMillis,
       MillisAt(2000 + 3600000, 0),
       MillisAt(2000 + NTP_RESYNC_AFTER_MS, 0),
       MillisAt(2001 + NTP_RESYNC_AFTER_MS, 0),
       MillisAt(0, 1),
       MillisAt(2000 + 3600000, 1) >>

\* millis() moves on to a later reading
MillisPasses ==
    /\ pc # "setup"
    /\ \E i \in 1..Len(MillisPoints), j \in 1..Len(MillisPoints) :
          /\ i < j
          /\ nowMillis = MillisPoints[i]
          /\ Commit([Cur EXCEPT !.nowMillis = MillisPoints[j]])
    /\ UNCHANGED << pc, irqEdge, bootEnv, netVars, timeVars >>

\* wifiLoop() at the current reading of millis()
LoopWifiTimed ==
    /\ pc # "setup"
    /\ \E reply \in IF wifiState = "CONNECTING" /\ radio.link = "up"
                    THEN NtpReplies ELSE {NoReply} :
          \E n \in {wifiLoop(CurNet, reply, SyncIsStale(CurNet))} : CommitNet(n)

SyncAgeInit ==
    /\ SyncInit
    /\ calcIn = NoCall
    /\ prefs = [hasTime |-> FALSE, time |-> ClockTime(0, 0, 0, 0, 0, 0), dst |-> FALSE]
    /\ bootEnv \in { b \in BootInputs : b.found /\ b.writeOk /\ b.elapsed = 0 }
    /\ NetInit
    /\ wifiPrefs \in SavedCredentials

SyncAgeNext ==
    \/ Setup
    \/ WwvbDecoded
    \/ MillisPasses
    \/ LoopWifiTimed
    \/ LinkUp
    \/ LinkDown
    \/ WifiTime

SyncAgeSpec == SyncAgeInit /\ [][SyncAgeNext]_vars

(***************************************************************************)
(* C32: the connect-time NTP sync                                          *)
(***************************************************************************)
\* The station's connection attempt succeeds in this step
ConnectionMade == wifiState = "CONNECTING" /\ wifiState' = "CONNECTED"

\* ntpClientSync() ran in this step: each of its returns logs one of these
NtpClientLines ==
    { "[NTP-CLIENT] Not connected to WiFi", "[NTP-CLIENT] No response",
      "[NTP-CLIENT] Invalid response", "[NTP-CLIENT] Synced" }

NtpSyncTriggered == serialLog' \cap NtpClientLines # {}

\* More than two hours of time have passed since the last sync
\* (2^32 ms and more when the counter has rolled over past the sync's reading)
SyncOlderThanTwoHours ==
    LET diff == U32Sub(nowMillis, lastTimeSyncMillis)
        over == U32Less(ToU32(NTP_RESYNC_AFTER_MS), diff)
    IN CASE nowMillis.wraps = lastTimeSyncMillis.wraps -> over
         [] nowMillis.wraps = lastTimeSyncMillis.wraps + 1 ->
               IF U32Less(nowMillis, lastTimeSyncMillis) THEN over ELSE TRUE
         [] OTHER -> TRUE

NtpSyncDue == lastTimeSource # "WWVB" \/ SyncOlderThanTwoHours

ClockKept == tm' = tm /\ lastTimeSource' = lastTimeSource

\* C32: on each successful WiFi connection the NTP-client sync is triggered
\* exactly when the last time source is not WWVB or the last sync is more than
\* two hours old; a clock synced from WWVB less than two hours ago is not
\* overwritten by the connect-time sync.
C32_ConnectSyncIffNotFreshWwvb ==
    [][ConnectionMade =>
          /\ NtpSyncTriggered <=> NtpSyncDue
          /\ ~NtpSyncDue => ClockKept]_vars

\* C32 while millis() has not rolled over since boot
C32_BeforeRollOver ==
    [][(ConnectionMade /\ nowMillis.wraps = 0) =>
          /\ NtpSyncTriggered <=> NtpSyncDue
          /\ ~NtpSyncDue => ClockKept]_vars

\* connected one hour after a WWVB decode, the decoded time still in place
C32_FreshWwvbKept ==
    /\ wifiState = "CONNECTED"
    /\ lastTimeSource = "WWVB"
    /\ lastTimeSyncMillis = BootMillis
    /\ nowMillis = MillisPoints[2]

\* connected 49.7 days and one hour after the last WWVB decode, no NTP sync
C32_OldWwvbAfterRollOver ==
    /\ wifiState = "CONNECTED"
    /\ lastTimeSource = "WWVB"
    /\ lastTimeSyncMillis = BootMillis
    /\ nowMillis = MillisPoints[6]
    /\ serialLog \cap NtpClientLines = {}
    /\ radio.link = "up"

(***************************************************************************)
(* getMilliseconds() read between the calls of tick(): the main loop reads  *)
(* it for every NTP response, and calls tick() once the second is over,     *)
(* which is some milliseconds after the clock's own second has ended.       *)
(***************************************************************************)
MaxReadElapsedMs == 16000

\* TimeManager::getMilliseconds (lines 168-172) on the clock c = (tm, timeSet,
\* accumMillis); elapsed: millis() - _lastTickMillis
getMilliseconds(c, elapsed) ==
    IF ~c.timeSet THEN 0
    ELSE ((c.accumMillis + elapsed) % 1000) % 65536

\* millis() - _lastTickMillis at the reads
MillisReads == {0, 1, 499, 500, 999, 1000, 1004}

\* getMilliseconds(), no earlier than the read before it
GetMillisecondsCall ==
    /\ \E elapsed \in MillisReads :
          /\ calcIn.fn = "getMilliseconds" => elapsed >= calcIn.offset
          /\ calcIn' = [NoCall EXCEPT !.fn = "getMilliseconds", !.offset = elapsed]
          /\ calcOut' = [NoResult EXCEPT
                            !.fn = "getMilliseconds",
                            !.num = getMilliseconds([tm |-> tm, timeSet |-> timeSet,
                                                     accumMillis |-> accumMillis],
                                                    elapsed)]
    /\ UNCHANGED << syncVars, netVars, accumMillis, setAt, elapsedMs, histMillis,
                    shifts, blocked >>

\* tick(), no earlier than the read before it
TickAfterReads ==
    /\ TickCall
    /\ elapsedMs' <= MaxReadElapsedMs
    /\ calcIn.fn = "getMilliseconds" => calcIn'.offset >= calcIn.offset

SubSecondNext ==
    \/ SetClock
    \/ TickAfterReads
    \/ GetMillisecondsCall

SubSecondSpec == ClockInit /\ [][SubSecondNext]_vars

(***************************************************************************)
(* C33: getMilliseconds                                                    *)
(***************************************************************************)
MillisecondsRead == calcIn.fn = "getMilliseconds"

\* A read returns 0..999, and 0 while the time is not set
MillisecondsInRange ==
    MillisecondsRead => /\ calcOut.num \in 0..999
                        /\ ~timeSet => calcOut.num = 0

\* Two reads with no tick() or setTime() between them
ReadAgain == MillisecondsRead /\ calcIn'.fn = "getMilliseconds"

\* C33: getMilliseconds() changes nothing, returns a value in 0..999 (0 while
\* the time is not set), and of two calls with no tick() or setTime() between
\* them the later one returns no less than the earlier one.
C33_ReadsNeverDecrease ==
    /\ []MillisecondsInRange
    /\ [][ReadAgain => (calcOut'.num >= calcOut.num /\ UNCHANGED << tm, timeSet, accumMillis >>)]_vars

\* C33 without the order of the values: a read changes nothing of the clock
\* and returns 0..999, 0 while the time is not set.
C33_PureReadInRange ==
    /\ []MillisecondsInRange
    /\ [][calcIn'.fn = "getMilliseconds" => UNCHANGED << tm, timeSet, accumMillis >>]_vars

\* Read 999 ms and then 1000 ms after setTime, before the loop has called
\* tick(): the second read returns 0 while the clock still shows the same second
C33_WrappedBeforeTick ==
    /\ MillisecondsRead
    /\ timeSet
    /\ accumMillis = 0
    /\ calcIn.offset = 1000
    /\ calcOut.num = 0
    /\ tm = setAt

(***************************************************************************)
(* C34: the keyboard's password buffer                                     *)
(***************************************************************************)
\* C34: the password buffer is emptied whenever the keyboard is dismissed, the
\* Connect key included, and whenever a secured network is selected: while
\* the keyboard is hidden the buffer holds no typed password.
C34_NoPasswordWhileHidden == kbMode = "HIDDEN" => passwordBuffer = ""

\* C34, selection only: the step that opens the keyboard for a secured network
\* empties the buffer.
C34_EmptiedOnSelection ==
    [][(kbMode = "HIDDEN" /\ kbMode' # "HIDDEN")
          => (passwordBuffer' = "" /\ selectedNetwork' >= 0)]_vars

\* The Connect key has hidden the keyboard and started the connection, the
\* typed password still in the buffer
C34_PasswordLeftBehind ==
    /\ kbMode = "HIDDEN"
    /\ passwordBuffer = "pw"
    /\ wifiState = "CONNECTING"
    /\ wifiPassword = "pw"

(***************************************************************************)
(* C35: the two HTTP servers                                               *)
(***************************************************************************)
\* C35: the Captive Portal and the Status Dashboard are never running at the
\* same time.
C35_OneHttpServerAtATime == ~(portal.running /\ statusRunning)

\* C35 for the portal started from a state other than CONNECTED: the status
\* server runs only while the station is connected or reconnecting, never in
\* AP mode entered from OFF or IDLE.
C35_DashboardOnlyOnStation ==
    [][(wifiState \in {"OFF", "IDLE"} /\ ~statusRunning /\ wifiState' = "AP_MODE")
          => (portal'.running /\ ~statusRunning')]_vars

\* Start AP tapped while connected: the portal is up in AP mode and the
\* status server has not been stopped
C35_PortalBesideDashboard ==
    /\ wifiState = "AP_MODE"
    /\ portal.running
    /\ statusRunning
    /\ radio.ap

(***************************************************************************)
(* C36: what the NTP server says about its source                          *)
(***************************************************************************)
\* A response goes out in this step, as stratum 1 with reference "WWVB"
AnsweredAsWwvb ==
    /\ sentCount' = sentCount + 1
    /\ ntpResponse'.b1 = 1
    /\ ntpResponse'.refId = RefIdWWVB

\* C36: the NTP server answers with stratum 1 and reference identifier "WWVB"
\* only while the clock's time source is a WWVB decode.
C36_WwvbOnlyWhenDecoded ==
    [][AnsweredAsWwvb => lastTimeSource' = "WWVB"]_vars

\* C36 once the clock has been synced by NTP: a response as stratum 1 "WWVB"
\* is sent only with a WWVB decode as the time source.
C36_AfterNetworkSync ==
    [][(AnsweredAsWwvb /\ lastTimeSource' \in {"NTP", "WWVB"})
          => lastTimeSource' = "WWVB"]_vars

\* A request answered as stratum 1 "WWVB" with the compiled default time,
\* no receiver decode and no NTP sync having happened
C36_DefaultTimeServedAsWwvb ==
    /\ sentCount = 1
    /\ ntpResponse.b1 = 1
    /\ ntpResponse.refId = RefIdWWVB
    /\ lastTimeSource = "NONE"
    /\ hist.totalSuccess = 0
    /\ tm = ClockTime(2025, 1, 1, 0, 0, 0)

(***************************************************************************)
(* C37: the schedule's rate limit                                          *)
(***************************************************************************)
\* The scheduler tried to start a reception in this pass
ScheduledStartTried ==
    pc = "sched" /\ ~es100Receiving /\ "startReception" \in drvCalls'

\* C37: two consecutive scheduled attempts to start a reception are at least
\* the shortest schedule interval apart, also when the earlier one failed to
\* start: the scheduler tries only when an interval has passed since
\* lastSyncAttempt, and every try restarts that interval.
C37_AttemptsRateLimited ==
    [][ScheduledStartTried =>
          /\ sinceAttempt >= SYNC_INTERVAL_INITIAL_MS
          /\ sinceAttempt' < SYNC_INTERVAL_INITIAL_MS]_vars

\* C37 for attempts that start: a scheduled attempt is made only when an
\* interval has passed, and one that starts a reception restarts the interval.
C37_StartedAttemptsRateLimited ==
    [][ScheduledStartTried =>
          /\ sinceAttempt >= SYNC_INTERVAL_INITIAL_MS
          /\ es100Receiving' => sinceAttempt' = 0]_vars

\* A scheduled attempt has just failed to start and the interval has not been
\* restarted: the scheduler of the next pass, 10 ms later, tries again
C37_RetryDueInNextPass ==
    /\ pc = "delay"
    /\ "startReception" \in drvCalls
    /\ ~es100Receiving
    /\ sinceAttempt >= SYNC_INTERVAL_INITIAL_MS
    /\ hist.totalAttempts = 1

(***************************************************************************)
(* C38: credentials from the portal                                        *)
(***************************************************************************)
ApSessionStarts == wifiState # "AP_MODE" /\ wifiState' = "AP_MODE"

\* C38: the transition from AP mode to a station connection is made only on
\* credentials submitted during the current AP session: it needs the
\* portalCredsReceived flag, and an AP session starts with the flag cleared.
C38_OnlyCurrentSessionCredentials ==
    [][ /\ ApToStation => portalCredsReceived
        /\ ApSessionStarts => ~portalCredsReceived' ]_vars

\* C38 without the sessions: AP mode is left for a connection only with the
\* flag set, and the step clears it and stops the portal.
C38_TransitionNeedsFlag ==
    [][ApToStation => (portalCredsReceived /\ ~portalCredsReceived'
                       /\ ~portal'.running)]_vars

\* The portal took credentials, Stop AP (or the WiFi toggle) ended the session
\* before wifiLoop saw them, and the flag is still set with the radio off
C38_FlagOutlivesSession ==
    /\ wifiState = "OFF"
    /\ portalCredsReceived
    /\ ~portal.running
    /\ ~radio.ap

(***************************************************************************)
(* C39: interrupts left over from an earlier reception                     *)
(***************************************************************************)
\* The step calls es100.startReception()
ReceptionStartTried == "startReception" \in drvCalls'

\* The step reads a reception result from the receiver
ResultProcessed == drvCalls' \cap ResultReads # {}

\* A reception is running with the flag set after this step, and was not before
ResultBecomesPending ==
    /\ es100Receiving' /\ es100InterruptFlag'
    /\ ~(es100Receiving /\ es100InterruptFlag)

\* C39: an interrupt flag set while no reception is in progress is never taken
\* for the result of a later reception. Every step that starts a reception
\* leaves the flag cleared; a result is read only by the loop's flag check with
\* the flag set and a reception running; and a running reception gets its flag
\* set only by the interrupt routine taking an edge the receiver raised during
\* that reception.
C39_NoLeftoverInterruptConsumed ==
    [][ /\ ReceptionStartTried => (~es100InterruptFlag' /\ ~irqEdge')
        /\ ResultProcessed =>
              (pc = "irq" /\ es100InterruptFlag /\ es100Receiving /\ drv.receiving)
        /\ ResultBecomesPending =>
              /\ es100Receiving /\ ~es100InterruptFlag
              /\ irqEdge /\ ~irqEdge'
              /\ enPin /\ chip.irq # 0 ]_vars

\* The flag is set and no reception is in progress (the reception it belonged
\* to has timed out), and the scheduler is about to start the next reception
C39_LeftoverFlagBeforeStart ==
    /\ es100InterruptFlag
    /\ ~es100Receiving
    /\ ~enPin
    /\ es100Available
    /\ pc = "sched"
    /\ sinceAttempt >= SYNC_INTERVAL_INITIAL_MS

(***************************************************************************)
(* C40: the reception flags at the end of a pass                           *)
(***************************************************************************)
\* The loop has finished a pass (delay(10) has returned)
PassEnded == pc = "irq"

\* C40: at the end of every main-loop pass es100UsingTracking is true only
\* while es100Receiving is true, es100Receiving is true only while the receiver
\* is available, and es100Receiving equals the driver's own receiving flag.
C40_ReceptionFlagsConsistent ==
    PassEnded =>
        /\ es100UsingTracking => es100Receiving
        /\ es100Receiving => es100Available
        /\ es100Receiving = drv.receiving

\* The pass has ended with a tracking-mode reception running
C40_TrackingRunningAtPassEnd ==
    /\ PassEnded
    /\ es100UsingTracking
    /\ es100Receiving
    /\ drv.receiving
    /\ es100Available
    /\ hist.totalSuccess >= 1
====
